---- MODULE Spec2Model ----
(***************************************************************************)
(* A model of the 5-second clip downloader: its three scripts             *)
(* (scripts/clip_processor.py, scripts/online_clip_processor.py and       *)
(* scripts/gui.py), their timestamp and URL conversions, the CSV parser   *)
(* and the clip runners.                                                   *)
(*                                                                         *)
(* Strings are sequences of symbols.  A symbol is one character ("?",     *)
(* "&", "5", ...), one percent escape ("%26") or, in URLs, one run of     *)
(* ordinary characters that holds none of the characters the code looks   *)
(* at ("https://youtube.com/watch", "ABC").                                *)
(***************************************************************************)
EXTENDS Integers, Sequences, FiniteSets, TLC

VARIABLES
    impl,        \* which script runs: "gui", "online" or "clip"
    pc,          \* position of the running function
    token,       \* convert_timestamp: its argument
    ts_out,      \* convert_timestamp: what it returned or raised
    url,         \* clean_youtube_url: its argument
    url_once,    \* clean_youtube_url(url)
    url_twice,   \* clean_youtube_url(clean_youtube_url(url))
    csv,         \* parse_input_csv: the rows csv.reader yields, each a list of cells
    rows,        \* parse_input_csv: its list rows; the JobTable of process_clips
    row_i,       \* process_clips: the row loop's position, from 1
    pair_i,      \* process_clips: the position of (url, timestamps) in the row
    ts_i,        \* process_clips: the position of the timestamp in timestamps
    urlIndex,    \* gui.py process_clips: urlIndex
    clip_count,  \* process_clips: clip_count
    clips_done,  \* process_clips: clips_done
    total_clips, \* process_clips: total_clips
    stop_event,  \* gui.py: App.stop_event, a threading.Event
    calls,       \* the calls of the downloader, of ffmpeg and of os.remove so far
    dirs,        \* the output directories os.makedirs has made
    temp,        \* the downloaded videos in temp_dir
    stop_at,     \* history: where the worker was when the stop event was first set
    files,       \* the files in the output directories: path -> "empty" or "nonempty"
    returncode,  \* how the last run of yt-dlp or ffmpeg ended
    app          \* gui.py: the App window, its threads and what it finds installed

tsVars  == <<token, ts_out>>
urlVars == <<url, url_once, url_twice>>
csvVars == <<csv, rows>>
runVars == <<row_i, pair_i, ts_i, urlIndex, clip_count, clips_done,
             total_clips, stop_event, calls, dirs, temp, stop_at>>
toolVars == <<files, returncode>>
vars    == <<impl, pc, tsVars, urlVars, csvVars, runVars, toolVars, app>>

Impls == {"gui", "online", "clip"}

(***************************************************************************)
(* Bounds of the model.                                                    *)
(***************************************************************************)
MaxTokLen == 4
MaxUrlTail == 5
MaxCsvRows == 2
MaxTableSize == 5
MaxExtractions == 2
MaxInstalls == 2

(***************************************************************************)
(* Python's str methods, on sequences of symbols.                          *)
(***************************************************************************)
\* str.split(sep): the parts between the occurrences of sep, "" included.
RECURSIVE split(_, _)
split(s, sep) ==
    IF \A i \in 1..Len(s) : s[i] # sep
    THEN <<s>>
    ELSE LET i == CHOOSE k \in 1..Len(s) :
                      s[k] = sep /\ \A j \in 1..(k - 1) : s[j] # sep
         IN  <<SubSeq(s, 1, i - 1)>> \o split(SubSeq(s, i + 1, Len(s)), sep)

\* str.strip(): leading and trailing blanks removed.
RECURSIVE strip(_)
strip(s) ==
    IF s = <<>> THEN s
    ELSE IF Head(s) = " " THEN strip(Tail(s))
    ELSE IF s[Len(s)] = " " THEN strip(SubSeq(s, 1, Len(s) - 1))
    ELSE s

\* The value of one decimal digit.
DigitVal(c) ==
    CASE c = "0" -> 0 [] c = "1" -> 1 [] c = "2" -> 2 [] c = "3" -> 3
      [] c = "4" -> 4 [] c = "5" -> 5 [] c = "6" -> 6 [] c = "7" -> 7
      [] c = "8" -> 8 [] c = "9" -> 9

DigitChars == {"0", "1", "2", "3", "4", "5", "6", "7", "8", "9"}

IsDigits(s) == s # <<>> /\ \A i \in 1..Len(s) : s[i] \in DigitChars

\* The number a non-empty string of decimal digits denotes.
RECURSIVE Decimal(_)
Decimal(s) ==
    IF s = <<>> THEN 0
    ELSE 10 * Decimal(SubSeq(s, 1, Len(s) - 1)) + DigitVal(s[Len(s)])

(***************************************************************************)
(* What a conversion returns: a number val / 10^scale, or the ValueError   *)
(* that int() and float() raise.                                           *)
(***************************************************************************)
Num(v)      == [ok |-> TRUE, val |-> v, scale |-> 0]
Frac(v, k)  == [ok |-> TRUE, val |-> v, scale |-> k]
ValueError  == [ok |-> FALSE, val |-> 0, scale |-> 0]
NotRun      == [ok |-> FALSE, val |-> -1, scale |-> 0]

\* int(s): blanks around s are ignored, one sign is allowed, the rest must
\* be decimal digits.
int(s) ==
    LET t == strip(s)
        neg == t # <<>> /\ Head(t) = "-"
        d == IF neg THEN Tail(t) ELSE t
    IN  IF IsDigits(d)
        THEN Num(IF neg THEN 0 - Decimal(d) ELSE Decimal(d))
        ELSE ValueError

\* float(s): as int(s), with at most one "." among the digits.
float(s) ==
    LET t == strip(s)
        neg == t # <<>> /\ Head(t) = "-"
        d == IF neg THEN Tail(t) ELSE t
        parts == split(d, ".")
        digits == IF Len(parts) = 2 THEN parts[1] \o parts[2] ELSE d
        v == Decimal(digits)
    IN  IF Len(parts) <= 2 /\ IsDigits(digits)
        THEN Frac(IF neg THEN 0 - v ELSE v,
                  IF Len(parts) = 2 THEN Len(parts[2]) ELSE 0)
        ELSE ValueError

\* minutes * 60 + seconds, raising what int() raised.
MinSec(m, s) ==
    IF m.ok /\ s.ok THEN Num(m.val * 60 + s.val) ELSE ValueError

HourMinSec(h, m, s) ==
    IF h.ok /\ m.ok /\ s.ok
    THEN Num(h.val * 3600 + m.val * 60 + s.val)
    ELSE ValueError

(***************************************************************************)
(* convert_timestamp, one per script.                                      *)
(***************************************************************************)
convert_timestamp_decimal(ts_str) == float(ts_str)

convert_timestamp_clip(ts_str) ==
    LET parts == split(ts_str, ".")
    IN  IF Len(parts) = 2
        THEN MinSec(int(parts[1]), int(parts[2]))
        ELSE float(ts_str)

convert_timestamp_online(ts) ==
    LET parts == split(ts, ".")
    IN  IF Len(parts) = 2
        THEN MinSec(int(parts[1]), int(parts[2]))
        ELSE float(ts)

convert_timestamp_gui(ts) ==
    LET parts == split(ts, ".")
    IN  IF Len(parts) = 2
        THEN MinSec(int(parts[1]), int(parts[2]))
        ELSE IF Len(parts) = 3
        THEN HourMinSec(int(parts[1]), int(parts[2]), int(parts[3]))
        ELSE float(ts)

convert_timestamp(i, ts) ==
    CASE i = "gui"    -> convert_timestamp_gui(ts)
      [] i = "online" -> convert_timestamp_online(ts)
      [] i = "clip"   -> convert_timestamp_clip(ts)

(***************************************************************************)
(* The timestamp specification: one token, converted by one script.        *)
(***************************************************************************)
TokChars == {"0", "2", "5", "7", ".", "-", "a"}

RECURSIVE SeqsUpTo(_, _)
SeqsUpTo(S, n) ==
    IF n = 0 THEN {<<>>}
    ELSE LET shorter == SeqsUpTo(S, n - 1)
         IN  shorter \cup {Append(s, c) : s \in shorter, c \in S}

Tokens == SeqsUpTo(TokChars, MaxTokLen) \ {<<>>}

NoUrl == <<>>

\* The variables of the functions that are not running.
TsIdle  == token = <<>> /\ ts_out = NotRun
UrlIdle == url = NoUrl /\ url_once = NoUrl /\ url_twice = NoUrl
CsvIdle == csv = <<>> /\ rows = <<>>
\* App.__init__: the Start button enabled, the Stop button disabled,
\* proc_thread None.  winget and find count the threads installing ffmpeg,
\* after the callbacks posted to the main thread, older the worker threads
\* started before proc_thread and still alive.  installs, ok_start and
\* aborted are history: the installs begun, whether some call of start
\* passed its checks, and for what reasons calls of start gave up.
AppInit ==
    [start_btn |-> "normal", stop_btn |-> "disabled", ffmpeg |-> FALSE,
     winget |-> 0, find |-> 0, after |-> [start |-> 0, enable |-> 0],
     proc_thread |-> "none", older |-> [clear |-> 0, process |-> 0],
     installs |-> 0, ok_start |-> FALSE, aborted |-> {},
     no_process |-> FALSE]

NotStopped ==
    [set |-> FALSE, pc |-> "", pos |-> <<0, 0, 0>>, ncalls |-> 0, dirs |-> {}]
RunIdle ==
    /\ row_i = 0 /\ pair_i = 0 /\ ts_i = 0 /\ urlIndex = 0 /\ clip_count = 0
    /\ clips_done = 0 /\ total_clips = 0 /\ stop_event = FALSE
    /\ calls = <<>> /\ dirs = {} /\ temp = {} /\ stop_at = NotStopped
    /\ files = <<>> /\ returncode = ""
    /\ app = AppInit

(***************************************************************************)
(* urllib.parse, on sequences of symbols.                                  *)
(***************************************************************************)
\* The symbols before the first sep of s (all of s when it holds none).
Before(s, sep) == split(s, sep)[1]

\* The symbols after the first sep of s (none when it holds no sep).
After(s, sep) == SubSeq(s, Len(Before(s, sep)) + 2, Len(s))

Has(s, sep) == \E i \in 1..Len(s) : s[i] = sep

\* A network location with an unmatched "[": urlsplit raises ValueError
\* ("Invalid IPv6 URL") on a URL that holds it.
BadNetloc == "http://[bad/watch"

\* The runs of ordinary characters that hold "watch".
WatchPaths == {"https://youtube.com/watch", "https://www.youtube.com/watch"}

\* urlparse(url): the fragment is cut at the first "#", then the query at
\* the first "?".
urlparse(u) ==
    LET nofrag == Before(u, "#")
        path == Before(nofrag, "?")
    IN  [raised |-> Has(u, BadNetloc),
         path |-> path,
         query |-> After(nofrag, "?")]

\* unquote(s): each percent escape replaced by the character it encodes.
unquote(s) == [i \in 1..Len(s) |-> IF s[i] = "%26" THEN "&" ELSE s[i]]

\* parse_qs(qs), as the list of its (name, value) pairs in order: a field
\* without "=" or with an empty value is dropped (keep_blank_values and
\* strict_parsing are off).
RECURSIVE parse_qsl(_)
parse_qsl(fields) ==
    IF fields = <<>> THEN <<>>
    ELSE LET f == Head(fields)
             rest == parse_qsl(Tail(fields))
         IN  IF Has(f, "=") /\ After(f, "=") # <<>>
             THEN <<[name |-> unquote(Before(f, "=")),
                     value |-> unquote(After(f, "="))]>> \o rest
             ELSE rest

parse_qs(qs) == parse_qsl(split(qs, "&"))

\* 'v' in params
InParams(params, n) == \E i \in 1..Len(params) : params[i].name = n

\* params[n][0]
FirstValue(params, n) ==
    LET i == CHOOSE k \in 1..Len(params) :
                 params[k].name = n /\ \A j \in 1..(k - 1) : params[j].name # n
    IN  params[i].value

\* f"https://www.youtube.com/watch?v={video_id}"
WatchUrl(video_id) ==
    <<"https://www.youtube.com/watch", "?", "v", "=">> \o video_id

(***************************************************************************)
(* clean_youtube_url, one per script.                                      *)
(***************************************************************************)
clean_youtube_url_keep_query(u) ==
    LET parsed == urlparse(u)
        params == parse_qs(parsed.query)
    IN  IF ~parsed.raised /\ InParams(params, <<"v">>)
        THEN <<"https://www.youtube.com/watch", "?">> \o parsed.query
        ELSE u

clean_youtube_url_gui(u) ==
    LET parsed == urlparse(u)
        params == parse_qs(parsed.query)
    IN  IF parsed.raised THEN u
        ELSE IF InParams(params, <<"v">>)
        THEN WatchUrl(FirstValue(params, <<"v">>))
        ELSE u

clean_youtube_url_online(u) ==
    LET parsed == urlparse(u)
        params == parse_qs(parsed.query)
    IN  IF parsed.raised THEN u
        ELSE IF InParams(params, <<"v">>)
        THEN WatchUrl(FirstValue(params, <<"v">>))
        ELSE u

clean_youtube_url_clip(u) ==
    LET parsed == urlparse(u)
        params == parse_qs(parsed.query)
        video_id == IF InParams(params, <<"v">>)
                    THEN FirstValue(params, <<"v">>)
                    ELSE <<>>
    IN  IF parsed.raised THEN u
        ELSE IF ~InParams(params, <<"v">>)
                /\ \E i \in 1..Len(parsed.path) : parsed.path[i] \in WatchPaths
        THEN u
        ELSE IF video_id # <<>>
        THEN WatchUrl(video_id)
        ELSE u

clean_youtube_url(i, u) ==
    CASE i = "gui"    -> clean_youtube_url_gui(u)
      [] i = "online" -> clean_youtube_url_online(u)
      [] i = "clip"   -> clean_youtube_url_clip(u)

(***************************************************************************)
(* The URL specification: one URL, cleaned and cleaned again.              *)
(***************************************************************************)
UrlChars == {"v", "A", "=", "&", "?", "#", "%26"}

UrlBases == {<<"https://youtube.com/watch">>, <<BadNetloc>>}

\* "https://youtube.com/watch?v=ABC&list=XYZ&t=10"
ExampleUrl ==
    <<"https://youtube.com/watch", "?", "v", "=", "ABC", "&",
      "list", "=", "XYZ", "&", "t", "=", "10">>

Urls ==
    {b \o t : b \in UrlBases, t \in SeqsUpTo(UrlChars, MaxUrlTail)}
        \cup {ExampleUrl}

InitUrl ==
    /\ impl \in Impls
    /\ pc = "url"
    /\ url \in Urls
    /\ url_once = NoUrl /\ url_twice = NoUrl
    /\ TsIdle /\ CsvIdle /\ RunIdle

CleanUrl ==
    /\ pc = "url"
    /\ url_once' = clean_youtube_url(impl, url)
    /\ pc' = "once"
    /\ UNCHANGED <<impl, url, url_twice, tsVars, csvVars, runVars, toolVars, app>>

CleanUrlAgain ==
    /\ pc = "once"
    /\ url_twice' = clean_youtube_url(impl, url_once)
    /\ pc' = "twice"
    /\ UNCHANGED <<impl, url, url_once, tsVars, csvVars, runVars, toolVars, app>>

NextUrl == CleanUrl \/ CleanUrlAgain

SpecUrl == InitUrl /\ [][NextUrl]_vars

\* The query string of u as the claim reads it, and its fields.
QueryFields(u) == split(After(Before(u, "#"), "?"), "&")

\* The fields of u's query string whose name is v.
VFields(u) ==
    LET fs == QueryFields(u)
    IN  {i \in 1..Len(fs) : Has(fs[i], "=") /\ Before(fs[i], "=") = <<"v">>}

\* Those of them whose value is not empty.
VFieldsWithValue(u) ==
    {i \in VFields(u) : After(QueryFields(u)[i], "=") # <<>>}

Min(S) == CHOOSE x \in S : \A y \in S : x <= y

ValueOfField(u, i) == unquote(After(QueryFields(u)[i], "="))

C3_Idempotent == (pc = "twice") => url_twice = url_once

\* C3, the failing case reached: a value with an encoded "&" was cleaned.
C3_Reached ==
    /\ pc = "twice"
    /\ url = <<"https://youtube.com/watch", "?", "v", "=", "A", "%26">>

InitTs ==
    /\ impl \in Impls
    /\ pc = "token"
    /\ token \in Tokens
    /\ ts_out = NotRun
    /\ UrlIdle /\ CsvIdle /\ RunIdle

ConvertTimestamp ==
    /\ pc = "token"
    /\ ts_out' = convert_timestamp(impl, token)
    /\ pc' = "converted"
    /\ UNCHANGED <<impl, token, urlVars, csvVars, runVars, toolVars, app>>

NextTs == ConvertTimestamp

SpecTs == InitTs /\ [][NextTs]_vars

\* A token "M.S": two non-empty runs of decimal digits joined by one ".".
IsMinSecToken(t) ==
    LET parts == split(t, ".")
    IN  Len(parts) = 2 /\ IsDigits(parts[1]) /\ IsDigits(parts[2])

\* C1: for every token of two non-negative decimal integers M and S joined
\* by exactly one ".", convert_timestamp returns M*60 + S in all three
\* scripts: the part after the dot is whole seconds, not a fraction.
C1_MinSecIsMTimes60PlusS ==
    (pc = "converted" /\ IsMinSecToken(token)) =>
        LET parts == split(token, ".")
        IN  /\ ts_out.ok
            /\ ts_out.scale = 0
            /\ ts_out.val = Decimal(parts[1]) * 60 + Decimal(parts[2])

\* C1, its case: "2.57" was converted by the GUI script and gave 177.
C1_Witness ==
    /\ pc = "converted"
    /\ impl = "gui"
    /\ token = <<"2", ".", "5", "7">>
    /\ ts_out = Num(177)

(***************************************************************************)
(* parse_input_csv, one per script.  A row is the list of cells that       *)
(* csv.reader yields for one line; a ClipRequest is the tuple               *)
(* (url, timestamps).                                                      *)
(***************************************************************************)
\* any(row): some cell is not the empty string.
any(row) == \E i \in 1..Len(row) : row[i] # <<>>

\* [t.strip() for t in s.split(";") if t.strip()]
RECURSIVE StrippedNonEmpty(_)
StrippedNonEmpty(parts) ==
    IF parts = <<>> THEN <<>>
    ELSE IF strip(Head(parts)) = <<>> THEN StrippedNonEmpty(Tail(parts))
    ELSE <<strip(Head(parts))>> \o StrippedNonEmpty(Tail(parts))

ts_list(ts_raw) == StrippedNonEmpty(split(ts_raw, ";"))

\* [convert_timestamp(t) for t in ts_list]: each result, or the error raised
convert_all(i, ts_raw) ==
    LET l == ts_list(ts_raw)
    IN  [k \in 1..Len(l) |-> convert_timestamp(i, l[k])]

ClipRequest(u, ts) == [url |-> u, timestamps |-> ts]

\* gui.py and online_clip_processor.py: for i in range(0, len(row), 2),
\* here from the 1-based index i of the URL cell.
RECURSIVE pairs_gui(_, _, _)
pairs_gui(im, row, i) ==
    IF i > Len(row) THEN <<>>
    ELSE IF i + 1 > Len(row) THEN pairs_gui(im, row, i + 2)
    ELSE LET u == strip(row[i])
             ts_raw == strip(row[i + 1])
         IN  IF u = <<>> \/ ts_raw = <<>>
             THEN pairs_gui(im, row, i + 2)
             ELSE <<ClipRequest(clean_youtube_url(im, u), convert_all(im, ts_raw))>>
                      \o pairs_gui(im, row, i + 2)

\* clip_processor.py: a pair with a URL is kept whatever its timestamp cell.
RECURSIVE pairs_clip(_, _)
pairs_clip(row, i) ==
    IF i > Len(row) THEN <<>>
    ELSE IF i + 1 > Len(row) THEN pairs_clip(row, i + 2)
    ELSE LET u == strip(row[i])
             timestamps_str == strip(row[i + 1])
         IN  IF u = <<>>
             THEN pairs_clip(row, i + 2)
             ELSE <<ClipRequest(clean_youtube_url_clip(u),
                                IF timestamps_str # <<>>
                                THEN convert_all("clip", timestamps_str)
                                ELSE <<>>)>>
                      \o pairs_clip(row, i + 2)

parse_row_gui(row) ==
    IF ~any(row) THEN <<>> ELSE pairs_gui("gui", row, 1)

parse_row_online(row) ==
    IF ~any(row) THEN <<>> ELSE pairs_gui("online", row, 1)

parse_row_clip(row) ==
    IF ~any(row) \/ \A i \in 1..Len(row) : strip(row[i]) = <<>>
    THEN <<>>
    ELSE pairs_clip(row, 1)

parse_row(i, row) ==
    CASE i = "gui"    -> parse_row_gui(row)
      [] i = "online" -> parse_row_online(row)
      [] i = "clip"   -> parse_row_clip(row)

\* Some convert_timestamp of the row raised: the ValueError leaves
\* parse_input_csv.
RowRaises(pairs) ==
    \E j \in 1..Len(pairs) :
        \E k \in 1..Len(pairs[j].timestamps) : ~pairs[j].timestamps[k].ok

\* The row's pairs with the numbers the conversions returned.
RowJob(pairs) ==
    [j \in 1..Len(pairs) |->
        ClipRequest(pairs[j].url,
                    [k \in 1..Len(pairs[j].timestamps) |->
                        pairs[j].timestamps[k].val])]

(***************************************************************************)
(* The CSV specification: a file of up to MaxCsvRows lines, parsed by one  *)
(* script, a row per step.                                                 *)
(***************************************************************************)
U1 == <<"u1">>
U2 == <<"u2">>
T_105_210 == <<"1", ".", "0", "5", ";", "2", ".", "1", "0">>
T_030 == <<"0", ".", "3", "0">>

\* "u1,1.05;2.10,u2,0.30"
RowExample == <<U1, T_105_210, U2, T_030>>
\* an empty line
RowBlankLine == <<>>
\* ","
RowEmptyCells == <<<<>>, <<>>>>
\* " , "
RowSpaces == <<<<" ">>, <<" ">>>>
\* "u1,0.30,u2": a trailing cell without a timestamp cell
RowTrailing == <<U1, T_030, U2>>
\* "u1"
RowSingle == <<U1>>
\* " ,0.30, https://youtube.com/watch?v=ABC&list=XYZ&t=10 , 0.30; ;1.05;2.10;"
RowBlankUrl ==
    << <<" ">>, T_030, <<" ">> \o ExampleUrl \o <<" ">>,
       <<" ">> \o T_030 \o <<";", " ", ";">> \o T_105_210 \o <<";">> >>
\* "u1, ,u2,0.30": a blank timestamp cell
RowBlankTs == <<U1, <<" ">>, U2, T_030>>
\* "u1,;": a timestamp cell of separators only
RowOnlySemis == <<U1, <<";">>>>
\* "u1,a.b,u2,0.30": a malformed token
RowMalformed == <<U1, <<"a", ".", "b">>, U2, T_030>>

CsvRows ==
    {RowExample, RowBlankLine, RowEmptyCells, RowSpaces, RowTrailing,
     RowSingle, RowBlankUrl, RowBlankTs, RowOnlySemis, RowMalformed}

InitCsv ==
    /\ impl \in Impls
    /\ pc = "reading"
    /\ csv \in SeqsUpTo(CsvRows, MaxCsvRows)
    /\ rows = <<>>
    /\ TsIdle /\ UrlIdle /\ RunIdle

\* for row in reader: ... rows.append(pairs)
ParseRow ==
    /\ pc = "reading"
    /\ Len(rows) < Len(csv)
    /\ LET pairs == parse_row(impl, csv[Len(rows) + 1])
       IN  /\ ~RowRaises(pairs)
           /\ rows' = Append(rows, RowJob(pairs))
    /\ UNCHANGED <<impl, pc, csv, tsVars, urlVars, runVars, toolVars, app>>

\* for row in reader: a convert_timestamp raises ValueError
ParseRowRaises ==
    /\ pc = "reading"
    /\ Len(rows) < Len(csv)
    /\ RowRaises(parse_row(impl, csv[Len(rows) + 1]))
    /\ pc' = "raised"
    /\ UNCHANGED <<impl, csv, rows, tsVars, urlVars, runVars, toolVars, app>>

\* return rows
ReturnRows ==
    /\ pc = "reading"
    /\ Len(rows) = Len(csv)
    /\ pc' = "returned"
    /\ UNCHANGED <<impl, csv, rows, tsVars, urlVars, runVars, toolVars, app>>

NextCsv == ParseRow \/ ParseRowRaises \/ ReturnRows

SpecCsv == InitCsv /\ [][NextCsv]_vars

\* The 1-based URL-cell indices of the row's pairs: cell 2i with
\* 2i + 1 < len(row), counted from 0.
PairCells(row) == {i \in 1..Len(row) : i % 2 = 1 /\ i + 1 <= Len(row)}

Blank(cell) == strip(cell) = <<>>

\* The pairs of the row that survive: neither cell is blank.
Surviving(row) == {i \in PairCells(row) : ~Blank(row[i]) /\ ~Blank(row[i + 1])}

\* The elements of a set of numbers in increasing order.
RECURSIVE Sorted(_)
Sorted(S) == IF S = {} THEN <<>> ELSE <<Min(S)>> \o Sorted(S \ {Min(S)})

\* The parsed timestamps of a cell, in listed order, empty sub-tokens
\* dropped.
ParsedTimestamps(i, cell) ==
    LET toks == SelectSeq(split(cell, ";"), LAMBDA t : ~Blank(t))
    IN  [k \in 1..Len(toks) |-> convert_timestamp(i, strip(toks[k])).val]

ExpectedRowJob(i, row) ==
    LET idx == Sorted(Surviving(row))
    IN  [n \in 1..Len(idx) |->
            ClipRequest(clean_youtube_url(i, strip(row[idx[n]])),
                        ParsedTimestamps(i, row[idx[n] + 1]))]

\* C4 as stated: parse_input_csv returns one RowJob per CSV row in file
\* order, each RowJob the sequence, in cell order, of (normalized cell 2i,
\* parsed timestamps of cell 2i+1) over the surviving pairs; an unpaired
\* trailing cell contributes nothing; "u1,1.05;2.10,u2,0.30" yields
\* [(u1, [65, 130]), (u2, [30])].
C4_RowJobPerRow ==
    (pc = "returned") =>
        /\ Len(rows) = Len(csv)
        /\ \A k \in 1..Len(csv) :
              /\ rows[k] = ExpectedRowJob(impl, csv[k])
              /\ csv[k] = RowExample =>
                    rows[k] = <<ClipRequest(U1, <<65, 130>>),
                                ClipRequest(U2, <<30>>)>>

\* C4, the failing case reached: clip_processor.py parsed "u1, ,u2,0.30".
C4_Reached ==
    /\ pc = "returned"
    /\ impl = "clip"
    /\ csv = <<RowBlankTs>>
    /\ rows = <<<<ClipRequest(U1, <<>>), ClipRequest(U2, <<30>>)>>>>

\* C5 as stated: in every script a pair whose URL cell is blank after
\* trimming or whose timestamp cell is blank is discarded, so a RowJob has
\* no more ClipRequests than its row has pairs with both cells non-blank.
C5_BlankPairsDiscarded ==
    (pc = "returned") =>
        \A k \in 1..Len(rows) :
            Len(rows[k]) <= Cardinality(Surviving(csv[k]))

\* C5, the failing case reached: clip_processor.py kept the pair of a blank
\* timestamp cell as a ClipRequest without timestamps.
C5_Reached ==
    /\ pc = "returned"
    /\ impl = "clip"
    /\ csv = <<RowBlankTs, RowExample>>
    /\ rows[1][1] = ClipRequest(U1, <<>>)

(***************************************************************************)
(* process_clips, one per script.  The JobTable rows is what                *)
(* parse_input_csv returned.  Every call of the downloader, of ffmpeg and  *)
(* of os.remove is appended to calls when it starts, with result           *)
(* "running", and gets its result when it returns ("ok") or raises         *)
(* ("raised").  time.sleep and the log lines change no state.              *)
(***************************************************************************)
CLIP_DURATION == 5

\* Every row kept, the empty ones too.
every_row == [r \in 1..Len(rows) |-> r]

\* [(idx, pairs) for idx, pairs in enumerate(rows) if pairs], as the
\* 1-based positions idx + 1 of the kept rows.
non_empty_rows ==
    SelectSeq([r \in 1..Len(rows) |-> r], LAMBDA r : rows[r] # <<>>)

RECURSIVE SumLens(_)
SumLens(pairs) ==
    IF pairs = <<>> THEN 0
    ELSE Len(Head(pairs).timestamps) + SumLens(Tail(pairs))

\* sum(len(ts) for _, pairs in non_empty_rows for _, ts in pairs)
RECURSIVE SumClips(_)
SumClips(rs) ==
    IF rs = <<>> THEN 0 ELSE SumLens(rows[Head(rs)]) + SumClips(Tail(rs))

\* The (url, timestamps) lists the loops are in, and the current elements.
GuiPairs == rows[non_empty_rows[row_i]]
ClipPairs == rows[row_i]
Pairs == IF impl = "clip" THEN ClipPairs ELSE GuiPairs
Timestamps == Pairs[pair_i].timestamps

\* The position (row of the JobTable, URL of the row, timestamp of the URL)
\* the loops are at.
RowOfTable == IF impl = "clip" THEN row_i ELSE non_empty_rows[row_i]
Position == <<RowOfTable, pair_i, ts_i>>

\* enumerate(rows): row_idx counts from 0
row_idx == row_i - 1

\* os.path.join(row_out, f"{output_row_num}.{urlIndex}.{clip_count}")
GuiTemplate == [dir |-> row_i, name |-> <<row_i, urlIndex, clip_count>>]
\* os.path.join(row_out, f"{output_row_num}.{clip_count}")
OnlineTemplate == [dir |-> row_i, name |-> <<row_i, clip_count>>]
\* os.path.join(row_output_dir, f"{row_idx}.{clip_count}.mp4")
ClipOutput == [dir |-> row_idx, name |-> <<row_idx, clip_count, "mp4">>]
\* the file download_youtube_video writes: named by the video's title
VideoPath(u) == [dir |-> "temp", name |-> u]

Call(fn, pos, u, ts, out) ==
    [fn |-> fn, pos |-> pos, url |-> u, start_time |-> ts,
     duration |-> CLIP_DURATION, out |-> out, result |-> "running"]

Started(c) == Append(calls, c)

\* The call in flight ends.
Ended(result) == [calls EXCEPT ![Len(calls)].result = result]

fixedVars == <<impl, rows, csv, tsVars, urlVars, toolVars, app>>

(***************************************************************************)
(* gui.py: process_clips, run by the worker thread, and the stop event     *)
(* that App.stop sets from the GUI thread.                                 *)
(***************************************************************************)
\* lines 151-159
GuiBegin ==
    /\ impl = "gui" /\ pc = "start"
    /\ total_clips' = SumClips(non_empty_rows)
    /\ clips_done' = 0
    /\ row_i' = 1
    /\ pc' = "row"
    /\ UNCHANGED <<fixedVars, pair_i, ts_i, urlIndex, clip_count, stop_event,
                   calls, dirs, temp, stop_at>>

\* lines 161-164: the stop event is set at the start of a row
GuiRowCanceled ==
    /\ impl = "gui" /\ pc = "row"
    /\ row_i <= Len(non_empty_rows)
    /\ stop_event
    /\ pc' = "canceled"
    /\ UNCHANGED <<fixedVars, runVars>>

\* lines 161-172: a row starts
GuiRow ==
    /\ impl = "gui" /\ pc = "row"
    /\ row_i <= Len(non_empty_rows)
    /\ ~stop_event
    /\ clip_count' = 1
    /\ dirs' = dirs \cup {row_i}
    /\ urlIndex' = 0
    /\ pair_i' = 1
    /\ pc' = "url"
    /\ UNCHANGED <<fixedVars, row_i, ts_i, clips_done, total_clips, stop_event,
                   calls, temp, stop_at>>

\* line 161: no row is left
GuiRowsDone ==
    /\ impl = "gui" /\ pc = "row"
    /\ row_i > Len(non_empty_rows)
    /\ pc' = "done"
    /\ UNCHANGED <<fixedVars, runVars>>

\* lines 174-177: a URL of the row starts
GuiUrl ==
    /\ impl = "gui" /\ pc = "url"
    /\ pair_i <= Len(GuiPairs)
    /\ urlIndex' = urlIndex + 1
    /\ ts_i' = 1
    /\ pc' = "ts"
    /\ UNCHANGED <<fixedVars, row_i, pair_i, clip_count, clips_done, total_clips,
                   stop_event, calls, dirs, temp, stop_at>>

\* lines 206-211: the row's URLs are done
GuiRowCompleted ==
    /\ impl = "gui" /\ pc = "url"
    /\ pair_i > Len(GuiPairs)
    /\ row_i' = row_i + 1
    /\ pc' = "row"
    /\ UNCHANGED <<fixedVars, pair_i, ts_i, urlIndex, clip_count, clips_done,
                   total_clips, stop_event, calls, dirs, temp, stop_at>>

\* lines 178-181: the stop event is set before a clip request
GuiTsCanceled ==
    /\ impl = "gui" /\ pc = "ts"
    /\ ts_i <= Len(Timestamps)
    /\ stop_event
    /\ pc' = "canceled"
    /\ UNCHANGED <<fixedVars, runVars>>

GuiTsUnchecked ==
    /\ impl = "gui" /\ pc = "ts"
    /\ ts_i <= Len(Timestamps)
    /\ clips_done' = clips_done + 1
    /\ pc' = "call"
    /\ UNCHANGED <<fixedVars, row_i, pair_i, ts_i, urlIndex, clip_count,
                   total_clips, stop_event, calls, dirs, temp, stop_at>>

GuiTsNoCount ==
    /\ impl = "gui" /\ pc = "ts"
    /\ ts_i <= Len(Timestamps)
    /\ ~stop_event
    /\ pc' = "call"
    /\ UNCHANGED <<fixedVars, row_i, pair_i, ts_i, urlIndex, clip_count,
                   clips_done, total_clips, stop_event, calls, dirs, temp,
                   stop_at>>

\* lines 178-189: the stop event is not set, the clip is counted
GuiTs ==
    /\ impl = "gui" /\ pc = "ts"
    /\ ts_i <= Len(Timestamps)
    /\ ~stop_event
    /\ clips_done' = clips_done + 1
    /\ pc' = "call"
    /\ UNCHANGED <<fixedVars, row_i, pair_i, ts_i, urlIndex, clip_count,
                   total_clips, stop_event, calls, dirs, temp, stop_at>>

GuiUrlCompletedNoReset ==
    /\ impl = "gui" /\ pc = "ts"
    /\ ts_i > Len(Timestamps)
    /\ pair_i' = pair_i + 1
    /\ pc' = "url"
    /\ UNCHANGED <<fixedVars, row_i, ts_i, urlIndex, clip_count, clips_done,
                   total_clips, stop_event, calls, dirs, temp, stop_at>>

\* lines 178, 205: the URL's timestamps are done
GuiUrlCompleted ==
    /\ impl = "gui" /\ pc = "ts"
    /\ ts_i > Len(Timestamps)
    /\ clip_count' = 1
    /\ pair_i' = pair_i + 1
    /\ pc' = "url"
    /\ UNCHANGED <<fixedVars, row_i, ts_i, urlIndex, clips_done, total_clips,
                   stop_event, calls, dirs, temp, stop_at>>

\* lines 190-198: download_clip is called
GuiCall ==
    /\ impl = "gui" /\ pc = "call"
    /\ calls' = Started(Call("download_clip", Position, Pairs[pair_i].url,
                             Timestamps[ts_i], GuiTemplate))
    /\ pc' = "download"
    /\ UNCHANGED <<fixedVars, row_i, pair_i, ts_i, urlIndex, clip_count,
                   clips_done, total_clips, stop_event, dirs, temp, stop_at>>

\* lines 199-202: download_clip returned
GuiDownloadOk ==
    /\ impl = "gui" /\ pc = "download"
    /\ calls' = Ended("ok")
    /\ clip_count' = clip_count + 1
    /\ ts_i' = ts_i + 1
    /\ pc' = "ts"
    /\ UNCHANGED <<fixedVars, row_i, pair_i, urlIndex, clips_done, total_clips,
                   stop_event, dirs, temp, stop_at>>

GuiDownloadRaisesAborts ==
    /\ impl = "gui" /\ pc = "download"
    /\ calls' = Ended("raised")
    /\ pc' = "done"
    /\ UNCHANGED <<fixedVars, row_i, pair_i, ts_i, urlIndex, clip_count,
                   clips_done, total_clips, stop_event, dirs, temp, stop_at>>

GuiDownloadRaisesBreaks ==
    /\ impl = "gui" /\ pc = "download"
    /\ calls' = Ended("raised")
    /\ ts_i' = Len(Timestamps) + 1
    /\ pc' = "ts"
    /\ UNCHANGED <<fixedVars, row_i, pair_i, urlIndex, clip_count, clips_done,
                   total_clips, stop_event, dirs, temp, stop_at>>

\* lines 203-204: download_clip raised, the error is logged
GuiDownloadRaises ==
    /\ impl = "gui" /\ pc = "download"
    /\ calls' = Ended("raised")
    /\ ts_i' = ts_i + 1
    /\ pc' = "ts"
    /\ UNCHANGED <<fixedVars, row_i, pair_i, urlIndex, clip_count, clips_done,
                   total_clips, stop_event, dirs, temp, stop_at>>

\* The worker thread is in process_clips.
Running == pc \in {"start", "row", "url", "ts", "call", "download"}

\* App.stop, lines 439-442: the worker thread is alive, the event is set
Stop ==
    /\ impl = "gui"
    /\ Running
    /\ stop_event' = TRUE
    /\ stop_at' = IF stop_event THEN stop_at
                  ELSE [set |-> TRUE, pc |-> pc,
                        pos |-> <<row_i, pair_i, ts_i>>,
                        ncalls |-> Len(calls), dirs |-> dirs]
    /\ UNCHANGED <<fixedVars, pc, row_i, pair_i, ts_i, urlIndex, clip_count,
                   clips_done, total_clips, calls, dirs, temp>>

\* lines 161-171: os.makedirs raises for the row's directory, and the
\* OSError leaves process_clips
GuiMakedirsRaises ==
    /\ impl = "gui" /\ pc = "row"
    /\ row_i <= Len(non_empty_rows)
    /\ ~stop_event
    /\ clip_count' = 1
    /\ pc' = "failed"
    /\ UNCHANGED <<fixedVars, row_i, pair_i, ts_i, urlIndex, clips_done,
                   total_clips, stop_event, calls, dirs, temp, stop_at>>

NextGui ==
    \/ GuiBegin \/ GuiRowCanceled \/ GuiRow \/ GuiRowsDone
    \/ GuiUrl \/ GuiRowCompleted
    \/ GuiTsCanceled \/ GuiTs \/ GuiUrlCompleted
    \/ GuiCall \/ GuiDownloadOk \/ GuiDownloadRaises
    \/ GuiMakedirsRaises
    \/ Stop

(***************************************************************************)
(* online_clip_processor.py: process_clips.                                *)
(***************************************************************************)
\* lines 119-127
OnlineBegin ==
    /\ impl = "online" /\ pc = "start"
    /\ total_clips' = SumClips(non_empty_rows)
    /\ clips_done' = 0
    /\ row_i' = 1
    /\ pc' = "row"
    /\ UNCHANGED <<fixedVars, pair_i, ts_i, urlIndex, clip_count, stop_event,
                   calls, dirs, temp, stop_at>>

\* lines 129-134: a row starts
OnlineRow ==
    /\ impl = "online" /\ pc = "row"
    /\ row_i <= Len(non_empty_rows)
    /\ clip_count' = 1
    /\ dirs' = dirs \cup {row_i}
    /\ pair_i' = 1
    /\ pc' = "url"
    /\ UNCHANGED <<fixedVars, row_i, ts_i, urlIndex, clips_done, total_clips,
                   stop_event, calls, temp, stop_at>>

\* line 129: no row is left
OnlineRowsDone ==
    /\ impl = "online" /\ pc = "row"
    /\ row_i > Len(non_empty_rows)
    /\ pc' = "done"
    /\ UNCHANGED <<fixedVars, runVars>>

\* lines 136-137: a URL of the row starts
OnlineUrl ==
    /\ impl = "online" /\ pc = "url"
    /\ pair_i <= Len(GuiPairs)
    /\ ts_i' = 1
    /\ pc' = "ts"
    /\ UNCHANGED <<fixedVars, row_i, pair_i, urlIndex, clip_count, clips_done,
                   total_clips, stop_event, calls, dirs, temp, stop_at>>

\* line 158: the row's URLs are done
OnlineRowCompleted ==
    /\ impl = "online" /\ pc = "url"
    /\ pair_i > Len(GuiPairs)
    /\ row_i' = row_i + 1
    /\ pc' = "row"
    /\ UNCHANGED <<fixedVars, pair_i, ts_i, urlIndex, clip_count, clips_done,
                   total_clips, stop_event, calls, dirs, temp, stop_at>>

\* lines 139-153: the clip is counted and download_clip is called
OnlineCall ==
    /\ impl = "online" /\ pc = "ts"
    /\ ts_i <= Len(Timestamps)
    /\ clips_done' = clips_done + 1
    /\ calls' = Started(Call("download_clip", Position, Pairs[pair_i].url,
                             Timestamps[ts_i], OnlineTemplate))
    /\ pc' = "download"
    /\ UNCHANGED <<fixedVars, row_i, pair_i, ts_i, urlIndex, clip_count,
                   total_clips, stop_event, dirs, temp, stop_at>>

OnlineUrlCompletedResets ==
    /\ impl = "online" /\ pc = "ts"
    /\ ts_i > Len(Timestamps)
    /\ clip_count' = 1
    /\ pair_i' = pair_i + 1
    /\ pc' = "url"
    /\ UNCHANGED <<fixedVars, row_i, ts_i, urlIndex, clips_done, total_clips,
                   stop_event, calls, dirs, temp, stop_at>>

\* line 139: the URL's timestamps are done
OnlineUrlCompleted ==
    /\ impl = "online" /\ pc = "ts"
    /\ ts_i > Len(Timestamps)
    /\ pair_i' = pair_i + 1
    /\ pc' = "url"
    /\ UNCHANGED <<fixedVars, row_i, ts_i, urlIndex, clip_count, clips_done,
                   total_clips, stop_event, calls, dirs, temp, stop_at>>

\* line 154: download_clip returned
OnlineDownloadOk ==
    /\ impl = "online" /\ pc = "download"
    /\ calls' = Ended("ok")
    /\ clip_count' = clip_count + 1
    /\ ts_i' = ts_i + 1
    /\ pc' = "ts"
    /\ UNCHANGED <<fixedVars, row_i, pair_i, urlIndex, clips_done, total_clips,
                   stop_event, dirs, temp, stop_at>>

\* lines 64-65, 155-156: yt-dlp exited with an error, download_clip raised
OnlineDownloadRaises ==
    /\ impl = "online" /\ pc = "download"
    /\ calls' = Ended("raised")
    /\ ts_i' = ts_i + 1
    /\ pc' = "ts"
    /\ UNCHANGED <<fixedVars, row_i, pair_i, urlIndex, clip_count, clips_done,
                   total_clips, stop_event, dirs, temp, stop_at>>

\* lines 129-134: os.makedirs raises for the row's directory, and the
\* OSError leaves process_clips
OnlineMakedirsRaises ==
    /\ impl = "online" /\ pc = "row"
    /\ row_i <= Len(non_empty_rows)
    /\ clip_count' = 1
    /\ pc' = "failed"
    /\ UNCHANGED <<fixedVars, row_i, pair_i, ts_i, urlIndex, clips_done,
                   total_clips, stop_event, calls, dirs, temp, stop_at>>

NextOnline ==
    \/ OnlineBegin \/ OnlineRow \/ OnlineRowsDone
    \/ OnlineUrl \/ OnlineRowCompleted
    \/ OnlineCall \/ OnlineUrlCompleted
    \/ OnlineDownloadOk \/ OnlineDownloadRaises
    \/ OnlineMakedirsRaises

(***************************************************************************)
(* clip_processor.py: process_clips, which downloads a video once and cuts *)
(* its clips with ffmpeg.                                                  *)
(***************************************************************************)
\* lines 185-198
ClipBegin ==
    /\ impl = "clip" /\ pc = "start"
    /\ row_i' = 1
    /\ pc' = "row"
    /\ UNCHANGED <<fixedVars, pair_i, ts_i, urlIndex, clip_count, clips_done,
                   total_clips, stop_event, calls, dirs, temp, stop_at>>

\* lines 200-203: an empty row is skipped
ClipRowSkipped ==
    /\ impl = "clip" /\ pc = "row"
    /\ row_i <= Len(rows)
    /\ ClipPairs = <<>>
    /\ row_i' = row_i + 1
    /\ UNCHANGED <<fixedVars, pc, pair_i, ts_i, urlIndex, clip_count, clips_done,
                   total_clips, stop_event, calls, dirs, temp, stop_at>>

\* lines 200-207: a row starts
ClipRow ==
    /\ impl = "clip" /\ pc = "row"
    /\ row_i <= Len(rows)
    /\ ClipPairs # <<>>
    /\ clip_count' = 1
    /\ pair_i' = 1
    /\ pc' = "url"
    /\ UNCHANGED <<fixedVars, row_i, ts_i, urlIndex, clips_done, total_clips,
                   stop_event, calls, dirs, temp, stop_at>>

\* line 200: no row is left
ClipRowsDone ==
    /\ impl = "clip" /\ pc = "row"
    /\ row_i > Len(rows)
    /\ pc' = "done"
    /\ UNCHANGED <<fixedVars, runVars>>

\* lines 209-212: a pair without URL or without timestamps is skipped
ClipPairSkipped ==
    /\ impl = "clip" /\ pc = "url"
    /\ pair_i <= Len(ClipPairs)
    /\ ClipPairs[pair_i].url = <<>> \/ ClipPairs[pair_i].timestamps = <<>>
    /\ pair_i' = pair_i + 1
    /\ UNCHANGED <<fixedVars, pc, row_i, ts_i, urlIndex, clip_count, clips_done,
                   total_clips, stop_event, calls, dirs, temp, stop_at>>

\* lines 209-218: download_youtube_video is called
ClipFetch ==
    /\ impl = "clip" /\ pc = "url"
    /\ pair_i <= Len(ClipPairs)
    /\ ClipPairs[pair_i].url # <<>> /\ ClipPairs[pair_i].timestamps # <<>>
    /\ calls' = Started(Call("download_youtube_video", <<row_i, pair_i, 0>>,
                             ClipPairs[pair_i].url, 0,
                             VideoPath(ClipPairs[pair_i].url)))
    /\ pc' = "fetch"
    /\ UNCHANGED <<fixedVars, row_i, pair_i, ts_i, urlIndex, clip_count,
                   clips_done, total_clips, stop_event, dirs, temp, stop_at>>

\* line 244: the row's pairs are done
ClipRowCompleted ==
    /\ impl = "clip" /\ pc = "url"
    /\ pair_i > Len(ClipPairs)
    /\ row_i' = row_i + 1
    /\ pc' = "row"
    /\ UNCHANGED <<fixedVars, pair_i, ts_i, urlIndex, clip_count, clips_done,
                   total_clips, stop_event, calls, dirs, temp, stop_at>>

\* lines 218, 223-225: the video is in temp_dir, the row's directory is made
ClipFetchOk ==
    /\ impl = "clip" /\ pc = "fetch"
    /\ calls' = Ended("ok")
    /\ temp' = temp \cup {calls[Len(calls)].out}
    /\ dirs' = dirs \cup {row_idx}
    /\ ts_i' = 1
    /\ pc' = "ts"
    /\ UNCHANGED <<fixedVars, row_i, pair_i, urlIndex, clip_count, clips_done,
                   total_clips, stop_event, stop_at>>

ClipFetchRaisesThenCuts ==
    /\ impl = "clip" /\ pc = "fetch"
    /\ calls' = Ended("raised")
    /\ ts_i' = 1
    /\ pc' = "ts"
    /\ UNCHANGED <<fixedVars, row_i, pair_i, urlIndex, clip_count, clips_done,
                   total_clips, stop_event, dirs, temp, stop_at>>

\* lines 219-221: the download raised, the URL is skipped
ClipFetchRaises ==
    /\ impl = "clip" /\ pc = "fetch"
    /\ calls' = Ended("raised")
    /\ pair_i' = pair_i + 1
    /\ pc' = "url"
    /\ UNCHANGED <<fixedVars, row_i, ts_i, urlIndex, clip_count, clips_done,
                   total_clips, stop_event, dirs, temp, stop_at>>

\* lines 228-232: cut_clip is called
ClipCut ==
    /\ impl = "clip" /\ pc = "ts"
    /\ ts_i <= Len(Timestamps)
    /\ calls' = Started(Call("cut_clip", Position, Pairs[pair_i].url,
                             Timestamps[ts_i], ClipOutput))
    /\ pc' = "cut"
    /\ UNCHANGED <<fixedVars, row_i, pair_i, ts_i, urlIndex, clip_count,
                   clips_done, total_clips, stop_event, dirs, temp, stop_at>>

\* lines 228, 237-239: the timestamps are done, os.remove is called
ClipCutsDone ==
    /\ impl = "clip" /\ pc = "ts"
    /\ ts_i > Len(Timestamps)
    /\ calls' = Started(Call("os.remove", <<row_i, pair_i, 0>>,
                             Pairs[pair_i].url, 0, VideoPath(Pairs[pair_i].url)))
    /\ pc' = "remove"
    /\ UNCHANGED <<fixedVars, row_i, pair_i, ts_i, urlIndex, clip_count,
                   clips_done, total_clips, stop_event, dirs, temp, stop_at>>

\* lines 232-233: cut_clip returned
ClipCutOk ==
    /\ impl = "clip" /\ pc = "cut"
    /\ calls' = Ended("ok")
    /\ clip_count' = clip_count + 1
    /\ ts_i' = ts_i + 1
    /\ pc' = "ts"
    /\ UNCHANGED <<fixedVars, row_i, pair_i, urlIndex, clips_done, total_clips,
                   stop_event, dirs, temp, stop_at>>

\* lines 81-96, 234-235: ffmpeg failed or timed out, cut_clip raised
ClipCutRaises ==
    /\ impl = "clip" /\ pc = "cut"
    /\ calls' = Ended("raised")
    /\ ts_i' = ts_i + 1
    /\ pc' = "ts"
    /\ UNCHANGED <<fixedVars, row_i, pair_i, urlIndex, clip_count, clips_done,
                   total_clips, stop_event, dirs, temp, stop_at>>

\* lines 239-240: the video is deleted
ClipRemoveOk ==
    /\ impl = "clip" /\ pc = "remove"
    /\ calls' = Ended("ok")
    /\ temp' = temp \ {calls[Len(calls)].out}
    /\ pair_i' = pair_i + 1
    /\ pc' = "url"
    /\ UNCHANGED <<fixedVars, row_i, ts_i, urlIndex, clip_count, clips_done,
                   total_clips, stop_event, dirs, stop_at>>

\* lines 241-242: os.remove raised, a warning is printed
ClipRemoveRaises ==
    /\ impl = "clip" /\ pc = "remove"
    /\ calls' = Ended("raised")
    /\ pair_i' = pair_i + 1
    /\ pc' = "url"
    /\ UNCHANGED <<fixedVars, row_i, ts_i, urlIndex, clip_count, clips_done,
                   total_clips, stop_event, dirs, temp, stop_at>>

\* lines 218, 223-225: the video is in temp_dir, os.makedirs raises for
\* the row's directory, and the OSError leaves process_clips
ClipMakedirsRaises ==
    /\ impl = "clip" /\ pc = "fetch"
    /\ calls' = Ended("ok")
    /\ temp' = temp \cup {calls[Len(calls)].out}
    /\ pc' = "failed"
    /\ UNCHANGED <<fixedVars, row_i, pair_i, ts_i, urlIndex, clip_count,
                   clips_done, total_clips, stop_event, dirs, stop_at>>

NextClip ==
    \/ ClipBegin \/ ClipRowSkipped \/ ClipRow \/ ClipRowsDone
    \/ ClipPairSkipped \/ ClipFetch \/ ClipRowCompleted
    \/ ClipFetchOk \/ ClipFetchRaises
    \/ ClipCut \/ ClipCutsDone \/ ClipCutOk \/ ClipCutRaises
    \/ ClipRemoveOk \/ ClipRemoveRaises
    \/ ClipMakedirsRaises

(***************************************************************************)
(* The JobTables of the runs: a row costs 1, a URL costs 1 for each of its *)
(* timestamps and 1 when it has none, and a table costs at most            *)
(* MaxTableSize.  The k-th timestamp of a URL is 30 * k seconds.           *)
(***************************************************************************)
UrlNames == <<"u1", "u2", "u3", "u4", "u5", "u6", "u7", "u8">>

\* The rows, as lists of timestamp counts, that cost at most n.
RECURSIVE RowShapes(_)
RowShapes(n) ==
    {<<>>} \cup
    UNION {{<<c>> \o r : r \in RowShapes(n - (IF c = 0 THEN 1 ELSE c))} :
              c \in {c \in 0..n : (IF c = 0 THEN 1 ELSE c) <= n}}

RECURSIVE RowCost(_)
RowCost(r) ==
    IF r = <<>> THEN 1
    ELSE (IF Head(r) = 0 THEN 1 ELSE Head(r)) + RowCost(Tail(r))

RECURSIVE TableShapes(_)
TableShapes(n) ==
    IF n <= 0 THEN {<<>>}
    ELSE {<<>>} \cup
    UNION {{<<r>> \o t : t \in TableShapes(n - RowCost(r))} :
              r \in RowShapes(n - 1)}

RowOfShape(r) ==
    [j \in 1..Len(r) |->
        ClipRequest(<<UrlNames[j]>>, [k \in 1..r[j] |-> 30 * k])]

JobTables ==
    {[i \in 1..Len(t) |-> RowOfShape(t[i])] : t \in TableShapes(MaxTableSize)}

InitRun ==
    /\ impl \in Impls
    /\ pc = "start"
    /\ rows \in JobTables
    /\ csv = <<>>
    /\ TsIdle /\ UrlIdle /\ RunIdle

NextRun == NextGui \/ NextOnline \/ NextClip

SpecRun == InitRun /\ [][NextRun]_vars

(***************************************************************************)
(* The claims about the runners.                                           *)
(***************************************************************************)
RECURSIVE ConcatAll(_)
ConcatAll(ss) == IF ss = <<>> THEN <<>> ELSE Head(ss) \o ConcatAll(Tail(ss))

\* The positions (row, URL, timestamp) of the JobTable: rows in table
\* order, URLs in cell order, timestamps in listed order.
Flatten ==
    ConcatAll([r \in 1..Len(rows) |->
        ConcatAll([j \in 1..Len(rows[r]) |->
            [k \in 1..Len(rows[r][j].timestamps) |-> <<r, j, k>>]])])

CallsOf(fn) == SelectSeq(calls, LAMBDA c : c.fn = fn)

PositionsOf(cs) == [n \in 1..Len(cs) |-> cs[n].pos]

\* The calls that download or extract one clip.
ClipCalls == CallsOf(IF impl = "clip" THEN "cut_clip" ELSE "download_clip")

\* clip_processor.py: the video of URL j of row r was downloaded.
Fetched(r, j) ==
    \E n \in 1..Len(calls) :
        /\ calls[n].fn = "download_youtube_video"
        /\ calls[n].pos = <<r, j, 0>>
        /\ calls[n].result = "ok"

LexLess(a, b) ==
    \/ a[1] < b[1]
    \/ a[1] = b[1] /\ a[2] < b[2]
    \/ a[1] = b[1] /\ a[2] = b[2] /\ a[3] < b[3]

\* C6: in a run that is not canceled, whatever clips fail, every timestamp
\* of the table is attempted exactly once: when the run ends the clip
\* calls are the positions of the table, each once (in clip_processor.py,
\* the positions of the URLs whose video was downloaded).
C6_EveryClipAttemptedOnce ==
    (pc = "done") =>
        PositionsOf(ClipCalls) =
            IF impl = "clip"
            THEN SelectSeq(Flatten, LAMBDA p : Fetched(p[1], p[2]))
            ELSE Flatten

\* C6, its case: the first clip of the GUI run failed, and the second clip
\* of the URL and the clip of the next row were attempted all the same.
C6_Witness ==
    /\ impl = "gui" /\ pc = "done"
    /\ Len(calls) = 3
    /\ calls[1].result = "raised"
    /\ calls[2].pos = <<1, 1, 2>>
    /\ calls[3].pos = <<2, 1, 1>>

\* C7: in clip_processor.py, when the download of a video fails, cut_clip
\* is called for none of the timestamps of that URL and os.remove is not
\* called for it, and the run goes on: when it ends, a download was tried
\* for every URL with timestamps.
C7_FailedDownloadSkipsRequest ==
    (impl = "clip") =>
        /\ \A n \in 1..Len(calls) :
              (calls[n].fn = "download_youtube_video"
                   /\ calls[n].result = "raised") =>
                  \A m \in 1..Len(calls) :
                      (calls[m].pos[1] = calls[n].pos[1]
                           /\ calls[m].pos[2] = calls[n].pos[2]) => m = n
        /\ (pc = "done") =>
              \A r \in 1..Len(rows) : \A j \in 1..Len(rows[r]) :
                  rows[r][j].timestamps # <<>> =>
                      \E n \in 1..Len(calls) :
                          /\ calls[n].fn = "download_youtube_video"
                          /\ calls[n].pos = <<r, j, 0>>

\* C7, its case: the first download failed, and the next URL of the row
\* and the next row were downloaded all the same.
C7_Witness ==
    /\ impl = "clip" /\ pc = "done"
    /\ Len(calls) >= 3
    /\ calls[1].fn = "download_youtube_video"
    /\ calls[1].result = "raised"
    /\ calls[2].fn = "download_youtube_video"
    /\ calls[2].pos = <<1, 2, 0>>
    /\ \E n \in 1..Len(calls) : calls[n].pos = <<2, 1, 0>>

\* The stop event was set right after the first clip of a URL completed:
\* while the worker was between that download and the next stop check.
StoppedAfterFirstClip ==
    /\ stop_at.set
    /\ stop_at.pc = "ts"
    /\ stop_at.pos[3] = 2
    /\ calls[stop_at.ncalls].result = "ok"

\* The clips produced for the URL of call n.
ProducedFor(n) ==
    {m \in 1..Len(calls) :
        /\ calls[m].result = "ok"
        /\ calls[m].pos[1] = calls[n].pos[1]
        /\ calls[m].pos[2] = calls[n].pos[2]}

\* What C8 and its amendment share: once the stop event is set no row is
\* started, a canceled run leaves no call in flight, and a stop set right
\* after the first clip of a URL completed leaves one clip for that URL.
C8_Shared ==
    /\ stop_at.set => dirs = stop_at.dirs
    /\ (pc = "canceled") =>
          /\ stop_event
          /\ \A n \in 1..Len(calls) : calls[n].result # "running"
    /\ StoppedAfterFirstClip =>
          Cardinality(ProducedFor(stop_at.ncalls)) = 1

OutputRowNumber(r) == Cardinality({q \in 1..r : rows[q] # <<>>})

NoFailure == \A n \in 1..Len(calls) : calls[n].result # "raised"

Names(cs) == [n \in 1..Len(cs) |-> cs[n].out.name]

\* C9: in gui.py with no failures, timestamp k of URL j of output row r is
\* written to the template "r.j.k" in directory r, and the templates are
\* issued in the order r.1.1, r.1.2, ..., r.2.1, r.2.2, ...
C9_TemplatesAreRowUrlClip ==
    (impl = "gui" /\ NoFailure) =>
        /\ \A n \in 1..Len(calls) :
              LET r == OutputRowNumber(calls[n].pos[1])
              IN  calls[n].out =
                      [dir |-> r,
                       name |-> <<r, calls[n].pos[2], calls[n].pos[3]>>]
        /\ \A n \in 1..Len(calls) : \A m \in 1..Len(calls) :
              n < m => LexLess(calls[n].out.name, calls[m].out.name)
        /\ (pc = "done" /\ Len(rows) = 1 /\ rows[1] = RowOfShape(<<2, 2>>)) =>
              Names(calls) = <<<<1, 1, 1>>, <<1, 1, 2>>, <<1, 2, 1>>, <<1, 2, 2>>>>

\* C9, its case: a row of two URLs with two timestamps each was
\* downloaded without failures.
C9_Witness ==
    /\ impl = "gui" /\ pc = "done" /\ NoFailure
    /\ rows = <<RowOfShape(<<2, 2>>)>>
    /\ Names(calls) = <<<<1, 1, 1>>, <<1, 1, 2>>, <<1, 2, 1>>, <<1, 2, 2>>>>

\* C10: the calls are made in the order of the table: rows in table order,
\* URLs in cell order, timestamps in listed order. In gui.py and
\* online_clip_processor.py the download_clip calls so far are the first
\* positions of the table; in clip_processor.py the downloads, the cuts
\* and the removals each go through the table forwards, and no call for a
\* later URL starts before a call for an earlier one.
C10_CallsInTableOrder ==
    LET flat == Flatten
        clips == ClipCalls
    IN  /\ Len(clips) <= Len(flat)
        /\ (impl # "clip") =>
              PositionsOf(clips) = SubSeq(flat, 1, Len(clips))
        /\ \A n \in 1..Len(calls) : \A m \in 1..Len(calls) :
              n < m =>
                  /\ ~LexLess(<<calls[m].pos[1], calls[m].pos[2], 0>>,
                              <<calls[n].pos[1], calls[n].pos[2], 0>>)
                  /\ calls[n].fn = calls[m].fn =>
                        LexLess(calls[n].pos, calls[m].pos)
        /\ \A n \in 1..Len(clips) :
              \E i \in 1..Len(flat) : flat[i] = clips[n].pos

\* C10, its case: clip_processor.py cut clips of two URLs of a row and of
\* a second row.
C10_Witness ==
    /\ impl = "clip" /\ pc = "done"
    /\ PositionsOf(ClipCalls) = <<<<1, 1, 1>>, <<1, 2, 1>>, <<2, 1, 1>>>>

(***************************************************************************)
(* The job specification: process_clips from its first line, the CSV file  *)
(* parsed and the table it returns run by the same script.                 *)
(***************************************************************************)
\* "u1,0.30"
RowOneClip == <<U1, T_030>>

\* "u1,-5;-1.30": tokens with a sign
RowNegative == <<U1, <<"-", "5", ";", "-", "1", ".", "3", "0">>>>

JobRows ==
    {RowBlankLine, RowEmptyCells, RowOneClip, RowBlankTs, RowMalformed,
     RowNegative}

InitJob ==
    /\ impl \in Impls
    /\ pc = "reading"
    /\ csv \in SeqsUpTo(JobRows, MaxCsvRows)
    /\ rows = <<>>
    /\ TsIdle /\ UrlIdle /\ RunIdle

\* rows = parse_input_csv(csv_path): the first line of process_clips
ProcessParsed ==
    /\ pc = "returned"
    /\ pc' = "start"
    /\ UNCHANGED <<impl, csv, rows, tsVars, urlVars, runVars, toolVars, app>>

NextJob == NextCsv \/ ProcessParsed \/ NextRun

SpecJob == InitJob /\ [][NextJob]_vars

\* The output directory of row r of the table: its number among the
\* non-empty rows, or in clip_processor.py its index from 0.
DirOf(r) == IF impl = "clip" THEN r - 1 ELSE OutputRowNumber(r)

\* C11: a CSV row whose cells are all empty (or blank) is parsed to an
\* empty RowJob, and the runner skips an empty RowJob: no call is made for
\* it, and every output directory made is the directory of a row that is
\* not empty.
C11_EmptyRowSkipped ==
    /\ \A k \in 1..Len(rows) :
          (\A i \in 1..Len(csv[k]) : Blank(csv[k][i])) => rows[k] = <<>>
    /\ \A r \in 1..Len(rows) :
          rows[r] = <<>> =>
              \A n \in 1..Len(calls) : calls[n].pos[1] # r
    /\ dirs \subseteq {DirOf(r) : r \in {q \in 1..Len(rows) : rows[q] # <<>>}}

\* C11, its case: the file is a row of empty cells and a row of one clip;
\* the run made the directory of the second row only.
C11_Witness ==
    /\ impl = "gui" /\ pc = "done"
    /\ csv = <<RowEmptyCells, RowOneClip>>
    /\ rows[1] = <<>>
    /\ Len(calls) = 1 /\ calls[1].pos = <<2, 1, 1>>
    /\ dirs = {1}

\* The worker is at a progress report "[clips_done/total_clips]" or in the
\* download that follows it.
AtProgressReport == pc \in {"call", "download"}

\* C12: in gui.py and online_clip_processor.py total_clips is computed
\* before the first download as the number of timestamps of the table and
\* stays so; at every progress report 1 <= clips_done <= total_clips;
\* clips_done is the number of clips attempted so far; and when a run that
\* was not canceled ends, clips_done = total_clips.
C12_ProgressCounters ==
    (impl \in {"gui", "online"}) =>
        /\ (pc \in {"reading", "returned", "raised", "start"}) => calls = <<>>
        /\ (pc \in {"row", "url", "ts", "call", "download", "done", "canceled"}) =>
              /\ total_clips = Len(Flatten)
              /\ clips_done =
                    Len(calls) + (IF impl = "gui" /\ pc = "call" THEN 1 ELSE 0)
        /\ AtProgressReport => (1 <= clips_done /\ clips_done <= total_clips)
        /\ (pc = "done") => clips_done = total_clips

\* C12, its case: a run of three clips, one of them failed, ended with
\* clips_done = total_clips = 3.
C12_Witness ==
    /\ impl = "gui" /\ pc = "done"
    /\ total_clips = 3 /\ clips_done = 3
    /\ \E n \in 1..Len(calls) : calls[n].result = "raised"

\* The log line "Row r: completed" (gui.py 208, online_clip_processor.py
\* 158) or "Row r: Completed" (clip_processor.py 244) was written for row
\* r of the table: the row loop has passed it.
ReportedCompleted(r) ==
    /\ pc \in {"row", "url", "fetch", "ts", "call", "download", "cut", "remove",
               "done", "canceled", "failed"}
    /\ rows[r] # <<>>
    /\ IF impl = "clip" THEN r < row_i ELSE OutputRowNumber(r) < row_i

\* The clip calls of row r of the table with the given result.
ClipsOfRow(r, result) ==
    {n \in 1..Len(ClipCalls) :
        ClipCalls[n].pos[1] = r /\ ClipCalls[n].result = result}

Produced == {n \in 1..Len(ClipCalls) : ClipCalls[n].result = "ok"}

\* C13 as stated: the count a run reports is the number of clips that
\* succeeded, not the number attempted (for one row of one URL with three
\* timestamps and one failure: total_clips = 3, 2 produced), and a row
\* with both a failed and a succeeded clip is not reported as completed.
C13_ReportsProducedAndPartial ==
    (pc = "done") =>
        /\ (impl # "clip") => clips_done = Cardinality(Produced)
        /\ \A r \in 1..Len(rows) :
              (ClipsOfRow(r, "raised") # {} /\ ClipsOfRow(r, "ok") # {}) =>
                  ~ReportedCompleted(r)

\* C13, the failing case reached: one row of one URL with three
\* timestamps, the second download failed; the last report was [3/3] and
\* the row was logged as completed.
C13_Reached ==
    /\ impl = "gui" /\ pc = "done"
    /\ rows = <<RowOfShape(<<3>>)>>
    /\ total_clips = 3 /\ clips_done = 3
    /\ Len(calls) = 3
    /\ calls[1].result = "ok" /\ calls[2].result = "raised"
    /\ calls[3].result = "ok"
    /\ ReportedCompleted(1)

\* C14 as stated: a malformed timestamp token in one cell does not abort
\* the parse of the table: parse_input_csv returns, with the RowJobs of all
\* the rows without a malformed token, to the runner.
C14_MalformedDoesNotAbort ==
    /\ pc # "raised"
    /\ (pc # "reading") =>
          /\ Len(rows) = Len(csv)
          /\ \A k \in 1..Len(csv) :
                ~RowRaises(parse_row(impl, csv[k])) =>
                    rows[k] = RowJob(parse_row(impl, csv[k]))

\* C14, the failing case reached: the file is "u1,0.30" and
\* "u1,a.b,u2,0.30"; int("a") raised ValueError out of parse_input_csv
\* and process_clips, and no clip of the first row was attempted.
C14_Reached ==
    /\ impl = "gui" /\ pc = "raised"
    /\ csv = <<RowOneClip, RowMalformed>>
    /\ rows = <<<<ClipRequest(U1, <<30>>)>>>>
    /\ calls = <<>> /\ dirs = {}

\* C15 as stated: every timestamp of every ClipRequest that
\* parse_input_csv returns is >= 0, tokens with a leading "-" included.
C15_TimestampsNonNegative ==
    \A k \in 1..Len(rows) : \A j \in 1..Len(rows[k]) :
        \A t \in 1..Len(rows[k][j].timestamps) :
            rows[k][j].timestamps[t] >= 0

\* C15, the failing case reached: "u1,-5;-1.30" was parsed to
\* (u1, [-5, -30]).
C15_Reached ==
    /\ pc = "returned"
    /\ csv = <<RowNegative>>
    /\ rows = <<<<ClipRequest(U1, <<-5, -30>>)>>>>

\* C16 as stated: whatever clips fail, two distinct requested clips
\* (distinct row, URL and timestamp positions) are never directed to the
\* same output path.
C16_DistinctOutputPaths ==
    \A n \in 1..Len(ClipCalls) : \A m \in 1..Len(ClipCalls) :
        ClipCalls[n].pos # ClipCalls[m].pos =>
            ClipCalls[n].out # ClipCalls[m].out

\* C16, the failing case reached: the first clip of a URL failed, and the
\* second clip of the URL was directed to the same template.
C16_Reached ==
    /\ impl = "gui"
    /\ Len(calls) = 2
    /\ calls[1].pos = <<1, 1, 1>> /\ calls[1].result = "raised"
    /\ calls[2].pos = <<1, 1, 2>>
    /\ calls[1].out = [dir |-> 1, name |-> <<1, 1, 1>>]
    /\ calls[2].out = calls[1].out

(***************************************************************************)
(* The extraction specification: the timestamp loop of one URL, with the   *)
(* inside of cut_clip and download_clip: the external tool runs, exits     *)
(* and leaves what it leaves at the output path, and the script checks     *)
(* what it checks.  The tool's exit and its output are the environment's   *)
(* choice.                                                                 *)
(***************************************************************************)
\* How the tool ends: returncode 0 (YoutubeDL.download returns), another
\* returncode (YoutubeDL.download raises), or for ffmpeg the timeout.
ExitsOf(i) ==
    IF i = "clip" THEN {"zero", "nonzero", "timeout"} ELSE {"zero", "nonzero"}

\* What the tool leaves at the output path: nothing written, an empty
\* file, or a file with content.
Outputs == {"none", "empty", "nonempty"}

Written(path, w) == IF w = "none" THEN files ELSE (path :> w) @@ files

\* os.path.exists(output_file) and os.path.getsize(output_file) > 0
ExistsNonEmpty(path) == path \in DOMAIN files /\ files[path] = "nonempty"

Template ==
    CASE impl = "gui"    -> GuiTemplate
      [] impl = "online" -> OnlineTemplate
      [] impl = "clip"   -> ClipOutput

InitExtract ==
    /\ impl \in Impls
    /\ pc = "ts"
    /\ rows \in {<<RowOfShape(<<n>>)>> : n \in 1..MaxExtractions}
    /\ csv = <<>>
    /\ TsIdle /\ UrlIdle
    /\ row_i = 1 /\ pair_i = 1 /\ ts_i = 1
    /\ urlIndex = (IF impl = "gui" THEN 1 ELSE 0)
    /\ clip_count = 1
    /\ clips_done = 0
    /\ total_clips = (IF impl = "clip" THEN 0 ELSE Len(rows[1][1].timestamps))
    /\ stop_event = FALSE /\ stop_at = NotStopped
    /\ calls = <<>>
    /\ dirs = {IF impl = "clip" THEN 0 ELSE 1}
    /\ temp = (IF impl = "clip" THEN {VideoPath(rows[1][1].url)} ELSE {})
    /\ files = <<>> /\ returncode = ""
    /\ app = AppInit

\* gui.py 183-198, online_clip_processor.py 140-153, clip_processor.py
\* 229-232: the clip is named and the extraction is called
ExtractCalled ==
    /\ pc = "ts"
    /\ ts_i <= Len(Timestamps)
    /\ clips_done' = (IF impl = "clip" THEN clips_done ELSE clips_done + 1)
    /\ calls' = Started(Call(IF impl = "clip" THEN "cut_clip" ELSE "download_clip",
                             Position, Pairs[pair_i].url, Timestamps[ts_i],
                             Template))
    /\ pc' = "tool"
    /\ UNCHANGED <<app, impl, rows, csv, tsVars, urlVars, row_i, pair_i, ts_i,
                   urlIndex, clip_count, total_clips, stop_event, dirs, temp,
                   stop_at, toolVars>>

\* gui.py 96-98, online_clip_processor.py 62, clip_processor.py 79: yt-dlp
\* or ffmpeg runs and ends
ToolExits ==
    /\ pc = "tool"
    /\ \E rc \in ExitsOf(impl) : \E w \in Outputs :
          /\ returncode' = rc
          /\ files' = Written(calls[Len(calls)].out, w)
    /\ pc' = "check"
    /\ UNCHANGED <<app, impl, rows, csv, tsVars, urlVars, runVars>>

\* clip_processor.py 81-87, 233: returncode 0 and the output file exists
\* with content; cut_clip returns and the clip index is consumed
cut_clip_returns ==
    /\ impl = "clip" /\ pc = "check"
    /\ returncode = "zero"
    /\ ExistsNonEmpty(calls[Len(calls)].out)
    /\ calls' = Ended("ok")
    /\ clip_count' = clip_count + 1
    /\ ts_i' = ts_i + 1
    /\ pc' = "ts"
    /\ UNCHANGED <<app, impl, rows, csv, tsVars, urlVars, row_i, pair_i, urlIndex,
                   clips_done, total_clips, stop_event, dirs, temp, stop_at,
                   toolVars>>

\* clip_processor.py 81-83, 88-96, 234-235: ffmpeg failed or timed out, or
\* the output file is missing or empty; cut_clip raises
cut_clip_raises ==
    /\ impl = "clip" /\ pc = "check"
    /\ returncode # "zero" \/ ~ExistsNonEmpty(calls[Len(calls)].out)
    /\ calls' = Ended("raised")
    /\ ts_i' = ts_i + 1
    /\ pc' = "ts"
    /\ UNCHANGED <<app, impl, rows, csv, tsVars, urlVars, row_i, pair_i, urlIndex,
                   clip_count, clips_done, total_clips, stop_event, dirs, temp,
                   stop_at, toolVars>>

\* gui.py 98-100, 199; online_clip_processor.py 64-67, 154: the download
\* ended without error; download_clip returns and the clip index is
\* consumed
download_clip_returns ==
    /\ impl # "clip" /\ pc = "check"
    /\ returncode = "zero"
    /\ calls' = Ended("ok")
    /\ clip_count' = clip_count + 1
    /\ ts_i' = ts_i + 1
    /\ pc' = "ts"
    /\ UNCHANGED <<app, impl, rows, csv, tsVars, urlVars, row_i, pair_i, urlIndex,
                   clips_done, total_clips, stop_event, dirs, temp, stop_at,
                   toolVars>>

\* gui.py 98, 203-204; online_clip_processor.py 64-65, 155-156: the
\* download ended with an error; download_clip raises
download_clip_raises ==
    /\ impl # "clip" /\ pc = "check"
    /\ returncode # "zero"
    /\ calls' = Ended("raised")
    /\ ts_i' = ts_i + 1
    /\ pc' = "ts"
    /\ UNCHANGED <<app, impl, rows, csv, tsVars, urlVars, row_i, pair_i, urlIndex,
                   clip_count, clips_done, total_clips, stop_event, dirs, temp,
                   stop_at, toolVars>>

\* the URL's timestamps are done
ExtractsDone ==
    /\ pc = "ts"
    /\ ts_i > Len(Timestamps)
    /\ pc' = "done"
    /\ UNCHANGED <<impl, rows, csv, tsVars, urlVars, runVars, toolVars, app>>

NextExtract ==
    \/ ExtractCalled \/ ToolExits
    \/ cut_clip_returns \/ cut_clip_raises
    \/ download_clip_returns \/ download_clip_raises
    \/ ExtractsDone

SpecExtract == InitExtract /\ [][NextExtract]_vars

\* C17 as stated: in every runner a clip is declared successful (its clip
\* index is consumed) only when its output file exists with non-zero size,
\* and when an extraction failed no file of that clip remains in the
\* output directory at the end of the run.
C17_VerifiedAndNoPartialFile ==
    /\ \A n \in 1..Len(calls) :
          calls[n].result = "ok" => ExistsNonEmpty(calls[n].out)
    /\ (pc = "done") =>
          \A n \in 1..Len(calls) :
              (/\ calls[n].result = "raised"
               /\ \A m \in 1..Len(calls) :
                     calls[m].out = calls[n].out => calls[m].result = "raised")
                  => calls[n].out \notin DOMAIN files

\* C17, the failing case reached: ffmpeg exited with 0 and left an empty
\* output file; cut_clip raised, and the empty file is there when the run
\* ends.
C17_Reached ==
    /\ impl = "clip" /\ pc = "done"
    /\ Len(calls) = 1
    /\ calls[1].result = "raised"
    /\ returncode = "zero"
    /\ calls[1].out \in DOMAIN files
    /\ files[calls[1].out] = "empty"

\* C17, the other failing case reached: gui.py consumed the clip index
\* after a download that returned without an output file.
C17_ReachedUnverified ==
    /\ impl = "gui"
    /\ Len(calls) = 1
    /\ calls[1].result = "ok"
    /\ clip_count = 2
    /\ files = <<>>

(***************************************************************************)
(* The window specification: gui.py's App.  The main thread runs the       *)
(* button handlers and the callbacks posted with after(); the threads that *)
(* install ffmpeg and the worker threads run beside it.  What a worker     *)
(* does inside process_clips is the run specification; here it makes the   *)
(* first output directory and starts the first download.                   *)
(***************************************************************************)
guiFixed ==
    <<impl, pc, tsVars, urlVars, csvVars, toolVars, row_i, pair_i, ts_i,
      urlIndex, clip_count, clips_done, total_clips, temp, stop_at>>

\* The worker threads that are inside process_clips.
Workers == (IF app.proc_thread = "process" THEN 1 ELSE 0) + app.older.process

\* threading.Thread(...).start(): proc_thread is the new thread, the
\* thread it was is among the older ones while it lives.
ThreadStarted(a) ==
    [a EXCEPT !.proc_thread = "clear",
              !.older = CASE a.proc_thread = "clear" ->
                                 [@ EXCEPT !.clear = @ + 1]
                          [] a.proc_thread = "process" ->
                                 [@ EXCEPT !.process = @ + 1]
                          [] OTHER -> @]

start_without_csv_check(a, exists, yes) ==
    IF ~a.ffmpeg
    THEN IF yes
         THEN [a EXCEPT !.winget = @ + 1, !.installs = @ + 1]
         ELSE [a EXCEPT !.aborted = @ \cup {"declined"}]
    ELSE [ThreadStarted(a) EXCEPT !.start_btn = "disabled",
                                  !.stop_btn = "normal",
                                  !.ok_start = @ \/ exists]

\* App.start, lines 399-430, when the CSV file exists or not and the user
\* answers the install dialog with yes or no.
start(a, exists, yes) ==
    IF ~exists
    THEN [a EXCEPT !.aborted = @ \cup {"csv"}]
    ELSE IF ~a.ffmpeg
    THEN IF yes
         THEN [a EXCEPT !.winget = @ + 1, !.installs = @ + 1]
         ELSE [a EXCEPT !.aborted = @ \cup {"declined"}]
    ELSE [ThreadStarted(a) EXCEPT !.start_btn = "disabled",
                                  !.stop_btn = "normal",
                                  !.ok_start = TRUE]

\* An install is begun only while fewer than MaxInstalls were.
InstallAllowed(exists, yes) ==
    (exists /\ ~app.ffmpeg /\ yes) => app.installs < MaxInstalls

InitGui ==
    /\ impl = "gui"
    /\ pc = "idle"
    /\ TsIdle /\ UrlIdle /\ CsvIdle
    /\ row_i = 0 /\ pair_i = 0 /\ ts_i = 0 /\ urlIndex = 0 /\ clip_count = 0
    /\ clips_done = 0 /\ total_clips = 0 /\ stop_event = FALSE
    /\ calls = <<>> /\ dirs = {} /\ temp = {} /\ stop_at = NotStopped
    /\ files = <<>> /\ returncode = ""
    /\ app \in {[AppInit EXCEPT !.ffmpeg = f] : f \in BOOLEAN}

\* The user clicks Start: the button is enabled
ClickStart ==
    /\ app.start_btn = "normal"
    /\ \E exists \in BOOLEAN, yes \in BOOLEAN :
          /\ InstallAllowed(exists, yes)
          /\ app' = start(app, exists, yes)
    /\ UNCHANGED <<guiFixed, stop_event, calls, dirs>>

\* line 353: the main thread runs the posted self.start()
AfterStart ==
    /\ app.after.start > 0
    /\ \E exists \in BOOLEAN, yes \in BOOLEAN :
          /\ InstallAllowed(exists, yes)
          /\ app' = start([app EXCEPT !.after.start = @ - 1], exists, yes)
    /\ UNCHANGED <<guiFixed, stop_event, calls, dirs>>

\* line 355: the main thread runs the posted start_btn.config(NORMAL)
AfterEnable ==
    /\ app.after.enable > 0
    /\ app' = [app EXCEPT !.after.enable = @ - 1, !.start_btn = "normal"]
    /\ UNCHANGED <<guiFixed, stop_event, calls, dirs>>

\* _install_ffmpeg, lines 323-325, 354-355: winget is not there
InstallWithoutWinget ==
    /\ app.winget > 0
    /\ app' = [app EXCEPT !.winget = @ - 1, !.after.enable = @ + 1,
                          !.aborted = @ \cup {"install"}]
    /\ UNCHANGED <<guiFixed, stop_event, calls, dirs>>

\* _install_ffmpeg, lines 327-335: winget ran, and installed ffmpeg or not
WingetExits ==
    /\ app.winget > 0
    /\ \E installed \in BOOLEAN :
          app' = [app EXCEPT !.winget = @ - 1, !.find = @ + 1,
                             !.ffmpeg = @ \/ installed]
    /\ UNCHANGED <<guiFixed, stop_event, calls, dirs>>

\* _install_ffmpeg, lines 338-347, and _install_ffmpeg_and_start, lines
\* 350-355: ffmpeg is looked for, and start or the enabling of the Start
\* button is posted to the main thread
InstallReturns ==
    /\ app.find > 0
    /\ app' = IF app.ffmpeg
              THEN [app EXCEPT !.find = @ - 1, !.after.start = @ + 1]
              ELSE [app EXCEPT !.find = @ - 1, !.after.enable = @ + 1,
                               !.aborted = @ \cup {"install"}]
    /\ UNCHANGED <<guiFixed, stop_event, calls, dirs>>

\* _run_processor, line 389: a worker clears the stop event and enters
\* process_clips
WorkerClears ==
    /\ \/ /\ app.proc_thread = "clear"
          /\ app' = [app EXCEPT !.proc_thread = "process"]
       \/ /\ app.older.clear > 0
          /\ app' = [app EXCEPT !.older.clear = @ - 1, !.older.process = @ + 1]
    /\ stop_event' = FALSE
    /\ UNCHANGED <<guiFixed, calls, dirs>>

\* process_clips, lines 162-198: the stop event is not set, so the first
\* directory is made and the first download started
WorkerProcesses ==
    /\ Workers > 0
    /\ ~stop_event
    /\ dirs = {}
    /\ dirs' = {1}
    /\ calls' = <<Call("download_clip", <<1, 1, 1>>, <<"u1">>, 30,
                       [dir |-> 1, name |-> <<1, 1, 1>>])>>
    /\ UNCHANGED <<guiFixed, stop_event, app>>

\* _run_processor, lines 391-397: process_clips returned or raised
WorkerFinishes ==
    /\ \/ /\ app.proc_thread = "process"
          /\ app' = [app EXCEPT !.proc_thread = "dead",
                                !.start_btn = "normal", !.stop_btn = "disabled"]
       \/ /\ app.older.process > 0
          /\ app' = [app EXCEPT !.older.process = @ - 1,
                                !.start_btn = "normal", !.stop_btn = "disabled"]
    /\ stop_event' = FALSE
    /\ UNCHANGED <<guiFixed, calls, dirs>>

\* App.stop, lines 439-442: the user clicks Stop while proc_thread is alive
ClickStop ==
    /\ app.stop_btn = "normal"
    /\ app.proc_thread \in {"clear", "process"}
    /\ stop_event' = TRUE
    /\ stop_at' = IF stop_at.set THEN stop_at
                  ELSE [set |-> TRUE, pc |-> app.proc_thread,
                        pos |-> <<0, 0, 0>>, ncalls |-> Len(calls),
                        dirs |-> dirs]
    /\ UNCHANGED <<impl, pc, tsVars, urlVars, csvVars, toolVars, row_i,
                   pair_i, ts_i, urlIndex, clip_count, clips_done,
                   total_clips, temp, app, calls, dirs>>

NextGuiApp ==
    \/ ClickStart \/ AfterStart \/ AfterEnable
    \/ InstallWithoutWinget \/ WingetExits \/ InstallReturns
    \/ WorkerClears \/ WorkerProcesses \/ WorkerFinishes
    \/ ClickStop

SpecGui == InitGui /\ [][NextGuiApp]_vars

\* C18 as stated: in the GUI, whatever the Start and Stop clicks, the
\* ffmpeg dialogs and the background installs, at most one worker thread
\* executes process_clips at any time.
C18_AtMostOneWorker == Workers <= 1

\* C18, the failing case reached: one install was begun, the Start button
\* stayed enabled, and two workers are inside process_clips.
C18_Reached ==
    /\ app.installs = 1
    /\ Workers = 2

\* C19: in the GUI, as long as every call of start found the CSV file
\* missing, or found no ffmpeg and the install was declined or failed, no
\* worker thread was started, no output directory was made and no download
\* was started.
C19_AbortedBeforeWork ==
    ~app.ok_start =>
        /\ app.proc_thread = "none"
        /\ app.older = [clear |-> 0, process |-> 0]
        /\ dirs = {}
        /\ calls = <<>>

\* C19, its case: start found the CSV file missing, an install was
\* declined and an install failed, and nothing was started.
C19_Witness ==
    /\ ~app.ok_start
    /\ app.aborted = {"csv", "declined", "install"}
    /\ app.installs > 0 /\ app.winget = 0 /\ app.find = 0
    /\ app.after = [start |-> 0, enable |-> 0]
    /\ app.proc_thread = "none" /\ dirs = {}

\* The clip index in the name a clip call was given.
ClipIndex(c) == IF impl = "gui" THEN c.out.name[3] ELSE c.out.name[2]

\* The clips produced before clip call n: in gui.py those of the same URL
\* of the row, in the other scripts those of the same row.
ProducedBefore(n) ==
    {m \in 1..(n - 1) :
        /\ ClipCalls[m].result = "ok"
        /\ ClipCalls[m].pos[1] = ClipCalls[n].pos[1]
        /\ impl = "gui" => ClipCalls[m].pos[2] = ClipCalls[n].pos[2]}

\* C20 as stated: in every runner the clip index resets to 1 for each new
\* URL within a row: the first clip of every ClipRequest carries index 1.
C20_Original ==
    \A n \in 1..Len(ClipCalls) :
        ClipCalls[n].pos[3] = 1 => ClipIndex(ClipCalls[n]) = 1

\* C20, amended: in gui.py the clip index resets to 1 for each new URL
\* within a row, so the first clip of every ClipRequest carries index 1;
\* in online_clip_processor.py and clip_processor.py, whose names hold no
\* URL index, it is set to 1 at the start of each row and goes on across
\* the URLs of the row.  In each script the index of a clip is 1 plus the
\* number of clips produced before it, for the URL (gui.py) or for the row.
C20_ClipIndexResets ==
    \A n \in 1..Len(ClipCalls) :
        /\ ClipIndex(ClipCalls[n]) = 1 + Cardinality(ProducedBefore(n))
        /\ (impl = "gui" /\ ClipCalls[n].pos[3] = 1) =>
              ClipIndex(ClipCalls[n]) = 1

\* C20, its case: online_clip_processor.py produced the clip of the first
\* URL of a row as index 1 and gave the first clip of the second URL
\* index 2.
C20_Witness ==
    /\ impl = "online"
    /\ Len(calls) = 2
    /\ calls[1].pos = <<1, 1, 1>> /\ calls[1].result = "ok"
    /\ calls[2].pos = <<1, 2, 1>>
    /\ ClipIndex(calls[2]) = 2

\* C21 as stated: in clip_processor.py, after a video was downloaded,
\* os.remove is called for it after its last cut, whether or not cuts
\* failed, and before the next download starts; hence at most one
\* downloaded video exists in temp_dir at any moment.
C21_ScratchDeletedBeforeNext ==
    (impl = "clip") =>
        /\ \A n \in 1..Len(calls) : \A m \in 1..Len(calls) :
              (/\ n < m
               /\ calls[n].fn = "download_youtube_video"
               /\ calls[n].result = "ok"
               /\ calls[m].fn = "download_youtube_video") =>
                  \E k \in (n + 1)..(m - 1) :
                      calls[k].fn = "os.remove" /\ calls[k].pos = calls[n].pos
        /\ \A k \in 1..Len(calls) : \A m \in 1..Len(calls) :
              (/\ calls[k].fn = "os.remove"
               /\ calls[m].fn = "cut_clip"
               /\ calls[m].pos[1] = calls[k].pos[1]
               /\ calls[m].pos[2] = calls[k].pos[2]) => m < k
        /\ Cardinality(temp) <= 1

\* C21, the failing case reached: os.remove raised for the first video, the
\* run went on, and the second video was downloaded beside it.
C21_Reached ==
    /\ impl = "clip"
    /\ Cardinality(temp) = 2
    /\ \E k \in 1..Len(calls) :
          calls[k].fn = "os.remove" /\ calls[k].result = "raised"

\* The non-empty rows of the table.
NonEmptyRows == {r \in 1..Len(rows) : rows[r] # <<>>}

\* C22: in gui.py and online_clip_processor.py blank rows consume no row
\* number: the clips of the k-th non-empty row of the table go to
\* directory k under names that begin with k, whatever blank rows precede
\* it; the directories made so far are 1..k for some k, and when the run
\* ends they are 1..N for the N non-empty rows.
C22_BlankRowsConsumeNoNumber ==
    (impl \in {"gui", "online"}) =>
        /\ \A n \in 1..Len(calls) :
              LET k == Cardinality({r \in NonEmptyRows : r <= calls[n].pos[1]})
              IN  /\ calls[n].pos[1] \in NonEmptyRows
                  /\ calls[n].out.dir = k
                  /\ calls[n].out.name[1] = k
        /\ \E k \in 0..Cardinality(NonEmptyRows) : dirs = 1..k
        /\ (pc = "done") => dirs = 1..Cardinality(NonEmptyRows)

\* C22, its case: a blank row, then two rows of one clip: the second row
\* of the table went to directory 1 and the third to directory 2.
C22_Witness ==
    /\ impl = "online" /\ pc = "done"
    /\ Len(rows) = 3 /\ NonEmptyRows = {2, 3}
    /\ Len(calls) = 2
    /\ calls[1].pos[1] = 2 /\ calls[1].out.dir = 1
    /\ calls[2].pos[1] = 3 /\ calls[2].out.dir = 2
    /\ dirs = {1, 2}

\* C23 as stated: a failure to create a row's output directory is fatal
\* only for the clips concerned: after it the runner still processes the
\* following rows of the table.
C23_DirFailureNotFatal ==
    (pc = "failed") =>
        \A r \in NonEmptyRows :
            (r > RowOfTable /\ SumLens(rows[r]) > 0) =>
                \E n \in 1..Len(calls) : calls[n].pos[1] = r

\* C23, the failing case reached: os.makedirs raised for the first of two
\* rows; process_clips ended there, and nothing was done for the second.
C23_Reached ==
    /\ impl = "gui" /\ pc = "failed"
    /\ Len(rows) = 2 /\ NonEmptyRows = {1, 2}
    /\ SumLens(rows[2]) > 0
    /\ row_i = 1
    /\ calls = <<>> /\ dirs = {}

(***************************************************************************)
(* The section specification: one token is converted by gui.py or by      *)
(* online_clip_processor.py and download_clip builds from the result the  *)
(* section it asks yt-dlp for.                                             *)
(***************************************************************************)
\* int(x) of a float x = val / 10^scale: the fraction is cut off, towards
\* zero.
int_of_float(x) ==
    LET p == 10 ^ x.scale
    IN  IF x.val >= 0 THEN x.val \div p ELSE 0 - ((0 - x.val) \div p)

\* x + y of two floats, at the finer of the two scales.
float_add(x, y) ==
    LET k == IF x.scale >= y.scale THEN x.scale ELSE y.scale
    IN  Frac(x.val * 10 ^ (k - x.scale) + y.val * 10 ^ (k - y.scale), k)

\* A section that ends at the duration, whatever the start.
section_from_zero(start_time, duration) ==
    [start |-> int_of_float(start_time), end |-> int_of_float(duration)]

\* gui.py download_clip: start = int(start_time),
\* end = int(start_time + duration), given as download_ranges.
section_gui(start_time, duration) ==
    [start |-> int_of_float(start_time),
     end   |-> int_of_float(float_add(start_time, duration))]

\* online_clip_processor.py download_clip: start = start_time,
\* end = start_time + duration, section = "*{int(start)}-{int(end)}".
section_online(start_time, duration) ==
    LET start_ == start_time
        end_ == float_add(start_time, duration)
    IN  [start |-> int_of_float(start_), end |-> int_of_float(end_)]

InitSection ==
    /\ impl \in {"gui", "online"}
    /\ pc = "token"
    /\ token \in Tokens
    /\ ts_out = NotRun
    /\ UrlIdle /\ CsvIdle /\ RunIdle

\* download_clip(url, ts, CLIP_DURATION, template) up to the request it
\* hands to yt-dlp; a token that raised ValueError never gets here.
RequestSection ==
    /\ pc = "converted"
    /\ ts_out.ok
    /\ calls' = <<[fn |-> "download_clip",
                   start_time |-> ts_out,
                   duration |-> Num(CLIP_DURATION),
                   section |-> IF impl = "gui"
                               THEN section_gui(ts_out, Num(CLIP_DURATION))
                               ELSE section_online(ts_out, Num(CLIP_DURATION))]>>
    /\ pc' = "requested"
    /\ UNCHANGED <<impl, tsVars, urlVars, csvVars, row_i, pair_i, ts_i,
                   urlIndex, clip_count, clips_done, total_clips, stop_event,
                   dirs, temp, stop_at, toolVars, app>>

NextSection == ConvertTimestamp \/ RequestSection

SpecSection == InitSection /\ [][NextSection]_vars

\* C24: for every parsed timestamp ts >= 0 that is a whole number of
\* seconds, the section download_clip asks for starts at ts and ends at
\* ts + 5, so its length end - start is the fixed clip duration of 5
\* seconds, in gui.py and in online_clip_processor.py.
C24_SectionIsFiveSeconds ==
    (pc = "requested" /\ ts_out.scale = 0 /\ ts_out.val >= 0) =>
        /\ calls[1].section.start = ts_out.val
        /\ calls[1].section.end = ts_out.val + 5
        /\ calls[1].section.end - calls[1].section.start = CLIP_DURATION

\* C24, its case: "2.57" was parsed to 177 by the GUI script and the
\* section 177-182 was requested.
C24_Witness ==
    /\ pc = "requested"
    /\ impl = "gui"
    /\ token = <<"2", ".", "5", "7">>
    /\ ts_out = Num(177)
    /\ calls[1].section = [start |-> 177, end |-> 182]

\* C25 as stated: in the GUI, a cancellation that stop() accepted while the
\* worker thread was alive is never lost: once set, the stop event is
\* cleared only by the step in which that worker leaves process_clips, and
\* while it is set no download is started.
C25_CancellationNeverLost ==
    [][/\ (stop_event /\ ~stop_event') =>
             (app.proc_thread = "process" /\ app'.proc_thread = "dead")
       /\ stop_event => calls' = calls]_vars

\* C25, the failing case reached: with one worker and no install, Stop was
\* clicked before the worker's stop_event.clear(); the worker then cleared
\* the event, entered process_clips and started a download.
C25_Reached ==
    /\ app.installs = 0
    /\ stop_at.set /\ stop_at.pc = "clear" /\ stop_at.ncalls = 0
    /\ app.proc_thread = "process"
    /\ ~stop_event
    /\ Len(calls) = 1 /\ calls[1].result = "running"

(***************************************************************************)
(* The worker specification: one worker thread of gui.py from the start    *)
(* of the thread to its end, with process_clips in full, the Stop clicks   *)
(* of the GUI thread beside it, and the next click on Start.               *)
(***************************************************************************)
\* start() found the CSV file and ffmpeg: the buttons are set and the
\* worker thread is started.
AppStarted == start([AppInit EXCEPT !.ffmpeg = TRUE], TRUE, TRUE)

\* The tables the worker runs: the job tables one size below the largest.
WorkerTables ==
    {[i \in 1..Len(t) |-> RowOfShape(t[i])] :
        t \in TableShapes(MaxTableSize - 1)}

InitWorker ==
    /\ impl = "gui"
    /\ pc = "thread"
    /\ rows \in WorkerTables
    /\ csv = <<>>
    /\ TsIdle /\ UrlIdle
    /\ row_i = 0 /\ pair_i = 0 /\ ts_i = 0 /\ urlIndex = 0 /\ clip_count = 0
    /\ clips_done = 0 /\ total_clips = 0 /\ stop_event = FALSE
    /\ calls = <<>> /\ dirs = {} /\ temp = {} /\ stop_at = NotStopped
    /\ files = <<>> /\ returncode = ""
    /\ app = AppStarted

\* _run_processor, line 389: the thread clears the stop event and calls
\* process_clips
RunProcessorClears ==
    /\ pc = "thread"
    /\ stop_event' = FALSE
    /\ app' = [app EXCEPT !.proc_thread = "process"]
    /\ pc' = "start"
    /\ UNCHANGED <<impl, tsVars, urlVars, csvVars, toolVars, row_i, pair_i,
                   ts_i, urlIndex, clip_count, clips_done, total_clips,
                   calls, dirs, temp, stop_at>>

\* A finally block that leaves the stop event as it is.
RunProcessorFinallyKeepsEvent ==
    /\ pc \in {"done", "canceled", "failed"}
    /\ app' = [app EXCEPT !.proc_thread = "dead", !.start_btn = "normal",
                          !.stop_btn = "disabled"]
    /\ pc' = "ended"
    /\ UNCHANGED <<impl, tsVars, urlVars, csvVars, toolVars, row_i, pair_i,
                   ts_i, urlIndex, clip_count, clips_done, total_clips,
                   stop_event, calls, dirs, temp, stop_at>>

\* _run_processor, lines 391-397: process_clips returned, after all rows or
\* canceled, or raised; the finally block sets the buttons and clears the
\* stop event, and the thread ends
RunProcessorFinally ==
    /\ pc \in {"done", "canceled", "failed"}
    /\ app' = [app EXCEPT !.proc_thread = "dead", !.start_btn = "normal",
                          !.stop_btn = "disabled"]
    /\ stop_event' = FALSE
    /\ pc' = "ended"
    /\ UNCHANGED <<impl, tsVars, urlVars, csvVars, toolVars, row_i, pair_i,
                   ts_i, urlIndex, clip_count, clips_done, total_clips,
                   calls, dirs, temp, stop_at>>

\* App.stop, lines 439-442, before the thread has run line 389: the thread
\* is alive and the event is set
StopBeforeClear ==
    /\ pc = "thread"
    /\ app.stop_btn = "normal"
    /\ ~stop_event
    /\ stop_event' = TRUE
    /\ stop_at' = [set |-> TRUE, pc |-> pc, pos |-> <<0, 0, 0>>,
                   ncalls |-> Len(calls), dirs |-> dirs]
    /\ UNCHANGED <<fixedVars, pc, row_i, pair_i, ts_i, urlIndex, clip_count,
                   clips_done, total_clips, calls, dirs, temp>>

\* App.stop, lines 443-444, called while no worker thread is alive: "No
\* running process." is logged and the event is left alone
StopWithoutWorker ==
    /\ pc = "ended"
    /\ app.proc_thread = "dead"
    /\ app' = [app EXCEPT !.no_process = TRUE]
    /\ UNCHANGED <<impl, pc, tsVars, urlVars, csvVars, runVars, toolVars>>

\* App.start, lines 399-430, after a run has ended: the same table is run
\* again by a new worker thread; start leaves the stop event as it is
StartAgain ==
    /\ pc = "ended"
    /\ app.start_btn = "normal"
    /\ app' = start(app, TRUE, TRUE)
    /\ pc' = "thread"
    /\ row_i' = 0 /\ pair_i' = 0 /\ ts_i' = 0 /\ urlIndex' = 0
    /\ clip_count' = 0 /\ clips_done' = 0 /\ total_clips' = 0
    /\ calls' = <<>> /\ dirs' = {} /\ temp' = {} /\ stop_at' = NotStopped
    /\ UNCHANGED <<impl, tsVars, urlVars, csvVars, toolVars, stop_event>>

NextWorker ==
    \/ RunProcessorClears
    \/ NextGui
    \/ RunProcessorFinally
    \/ StopBeforeClear \/ StopWithoutWorker \/ StartAgain

SpecWorker == InitWorker /\ [][NextWorker]_vars

\* The worker thread is scheduled and every download call returns: the
\* steps of the thread, which leave the stop event to App.stop, are taken.
SpecWorkerFair ==
    /\ SpecWorker
    /\ WF_vars(RunProcessorClears)
    /\ WF_vars(NextGui /\ stop_event' = stop_event)
    /\ WF_vars(RunProcessorFinally)

\* C26: in the GUI, provided each download call returns, every started
\* worker run eventually ends, and however it ended (all rows done,
\* canceled, or an exception out of process_clips) the Start button is
\* enabled, the Stop button is disabled and the stop event is clear; a call
\* of stop while no worker is alive leaves the event clear, so the next
\* run starts with no cancellation carried over.
C26_RunEndsAndResets ==
    /\ (pc = "thread") ~> (pc = "ended")
    /\ [](pc = "ended" =>
             /\ app.start_btn = "normal"
             /\ app.stop_btn = "disabled"
             /\ app.proc_thread = "dead"
             /\ ~stop_event)
    /\ []((pc = "thread" /\ ~stop_at.set) => ~stop_event)

\* C26, its case: the second of two clips was canceled during the first
\* download, the run ended, and stop was called after the thread's end:
\* the buttons are reset and the event is clear.
C26_Witness ==
    /\ pc = "ended"
    /\ Len(rows) = 1 /\ total_clips = 2
    /\ stop_at.set /\ stop_at.pc = "download"
    /\ Len(calls) = 1
    /\ app.no_process
    /\ app.start_btn = "normal" /\ app.stop_btn = "disabled"
    /\ ~stop_event

====
